---- MODULE Spec2Model ----
(***************************************************************************)
(* A model of the WOFF2 codec of google/woff2: the sfnt reader, the font   *)
(* normalizer, the WOFF2 encoder and the WOFF2 decoder, at byte level.     *)
(*                                                                         *)
(* Memory regions are modelled sparsely (a length, a default byte and the  *)
(* explicitly written cells), so that the real size limits of the code can *)
(* be exercised.  Sizes and offsets are integers; 32-bit words that may    *)
(* exceed 2^31 (checksums) are pairs <<hi16, lo16>>.                       *)
(***************************************************************************)
EXTENDS Integers, Sequences, FiniteSets, TLC

VARIABLES data, dec, out, stage, ttf, meta, enc1, norm1, dec1, enc2, cin, cout

vars == <<data, dec, out, stage, ttf, meta, enc1, norm1, dec1, enc2, cin, cout>>

codecvars == <<cin, cout>>

rtvars == <<ttf, meta, enc1, norm1, dec1, enc2, codecvars>>

decvars == <<data, dec, out>>

----------------------------------------------------------------------------
(* Numbers of the format *)

kWoff2Signature == 2001684018
kTtcFontFlavor == 1953784678
kWoff2HeaderSize == 48
kWoff2FlagsContinueStream == 16
kWoff2FlagsTransform == 32
kSfntHeaderSize == 12
kSfntEntrySize == 16
kCheckSumAdjustmentOffset == 8
kEndPtsOfContoursOffset == 10
kCompositeGlyphBegin == 10
kMaxUncompressedSum == 30 * 1024 * 1024

Tag4(a, b, c, d) == ((a * 256 + b) * 256 + c) * 256 + d

kGlyfTableTag == Tag4(103, 108, 121, 102)
kLocaTableTag == Tag4(108, 111, 99, 97)
kHeadTableTag == Tag4(104, 101, 97, 100)
kCffTableTag == Tag4(67, 70, 70, 32)
kDsigTableTag == Tag4(68, 83, 73, 71)
kCmapTableTag == Tag4(99, 109, 97, 112)
kNameTableTag == Tag4(110, 97, 109, 101)
kTrueTypeFlavor == Tag4(0, 1, 0, 0)

----------------------------------------------------------------------------
(* Small arithmetic *)

Min(a, b) == IF a < b THEN a ELSE b

Max(a, b) == IF a < b THEN b ELSE a

RECURSIVE SumSeq(_)
SumSeq(s) == IF s = <<>> THEN 0 ELSE s[1] + SumSeq(Tail(s))

RECURSIVE SumSet(_, _)
SumSet(S, f) ==
  IF S = {} THEN 0
  ELSE LET x == CHOOSE y \in S : TRUE IN f[x] + SumSet(S \ {x}, f)

Pow2(n) == 2 ^ n

\* bitwise and of a byte-sized value with a mask of one bit run [lo, hi)
BitsOf(x, lo, hi) == (x \div Pow2(lo)) % Pow2(hi - lo)

HasBit(x, b) == (x \div Pow2(b)) % 2 = 1

\* value as it is
NotRounded(value) == value

Round4(value) == ((value + 3) \div 4) * 4

\* F applied to a value that is computed once
Bind(v, F(_)) == F(v)

----------------------------------------------------------------------------
(* 32-bit words as pairs of 16-bit halves *)

W32(x) == <<x \div 65536, x % 65536>>

WZero == <<0, 0>>

WAdd(a, b) ==
  LET lo == a[2] + b[2]
      hi == a[1] + b[1] + (lo \div 65536)
  IN <<hi % 65536, lo % 65536>>

WSub(a, b) ==
  LET lo == a[2] - b[2]
      br == IF lo < 0 THEN 1 ELSE 0
      hi == a[1] - b[1] - br
  IN <<(hi + 65536) % 65536, (lo + 65536) % 65536>>

WBytes(w) == <<w[1] \div 256, w[1] % 256, w[2] \div 256, w[2] % 256>>

WOfBytes(b) == <<b[1] * 256 + b[2], b[3] * 256 + b[4]>>

\* 0xB1B0AFBA
kChecksumMagic == <<45488, 44986>>

----------------------------------------------------------------------------
(* Sparse memory *)

NoCells == [i \in {} |-> 0]

MkMem(n, f) == [len |-> n, fill |-> f, m |-> NoCells]

ByteAt(mem, i) == IF i \in DOMAIN mem.m THEN mem.m[i] ELSE mem.fill

FromSeq(s) ==
  [len |-> Len(s), fill |-> 0, m |-> [i \in 0 .. Len(s) - 1 |-> s[i + 1]]]

ToSeq(mem) == [i \in 1 .. mem.len |-> ByteAt(mem, i - 1)]

BytesAt(mem, off, n) == [i \in 1 .. n |-> ByteAt(mem, off + i - 1)]

PutSeq(mem, off, s) ==
  LET idx == off .. (off + Len(s) - 1)
  IN [mem EXCEPT !.m = [i \in (DOMAIN mem.m) \cup idx |->
                          IF i \in idx THEN s[i - off + 1] ELSE mem.m[i]]]

SliceMem(mem, off, n) ==
  LET src == {j \in DOMAIN mem.m : j >= off /\ j < off + n}
  IN [len |-> n, fill |-> mem.fill,
      m |-> [i \in {j - off : j \in src} |-> mem.m[i + off]]]

\* memcpy(dst + doff, src + soff, n)
CopyMem(dst, doff, src, soff, n) ==
  LET keep == {j \in DOMAIN dst.m : j < doff \/ j >= doff + n}
      cells == {j \in DOMAIN src.m : j >= soff /\ j < soff + n}
      idx == IF src.fill = dst.fill THEN {j - soff + doff : j \in cells}
             ELSE doff .. (doff + n - 1)
  IN [dst EXCEPT !.m = [i \in keep \cup idx |->
                          IF i \in idx THEN ByteAt(src, i - doff + soff)
                          ELSE dst.m[i]]]

\* memset(dst + doff, v, n)
SetMem(dst, doff, v, n) ==
  LET keep == {j \in DOMAIN dst.m : j < doff \/ j >= doff + n}
      idx == IF v = dst.fill THEN {} ELSE doff .. (doff + n - 1)
  IN [dst EXCEPT !.m = [i \in keep \cup idx |->
                          IF i \in idx THEN v ELSE dst.m[i]]]

\* the content of two regions, compared byte by byte
SameBytes(a, b) ==
  /\ a.len = b.len
  /\ \A i \in (DOMAIN a.m) \cup (DOMAIN b.m) :
       i < a.len => ByteAt(a, i) = ByteAt(b, i)
  /\ (a.fill = b.fill
      \/ a.len <= Cardinality({i \in (DOMAIN a.m) \cup (DOMAIN b.m) : i < a.len}))

U16At(mem, off) == ByteAt(mem, off) * 256 + ByteAt(mem, off + 1)

U32At(mem, off) ==
  ((ByteAt(mem, off) * 256 + ByteAt(mem, off + 1)) * 256
     + ByteAt(mem, off + 2)) * 256 + ByteAt(mem, off + 3)

U16Bytes(x) == <<(x \div 256) % 256, x % 256>>

U32Bytes(x) ==
  <<(x \div 16777216) % 256, (x \div 65536) % 256, (x \div 256) % 256, x % 256>>

----------------------------------------------------------------------------
(* The Brotli library, as the codec sees it: a lossless byte codec whose   *)
(* decoder rejects malformed streams and never writes past the capacity it *)
(* is given.  A stream is a list of blocks                                 *)
(*    1 n b1..bn      n literal bytes                                      *)
(*    2 v c3 c2 c1 c0 a run of c bytes v                                   *)
(*    3 h l ...       a metadata block of h*256+l ignored bytes            *)
(*    0               end of stream                                        *)

RECURSIVE BrotliDecodeFrom(_, _, _, _, _)
BrotliDecodeFrom(src, pos, end, outm, cap) ==
  IF pos >= end THEN [ok |-> FALSE, out |-> outm]
  ELSE LET op == ByteAt(src, pos) IN
    CASE op = 0 -> [ok |-> pos + 1 = end, out |-> outm]
      [] op = 1 ->
           IF pos + 2 > end THEN [ok |-> FALSE, out |-> outm]
           ELSE LET n == ByteAt(src, pos + 1) IN
             IF pos + 2 + n > end \/ outm.len + n > cap
             THEN [ok |-> FALSE, out |-> outm]
             ELSE BrotliDecodeFrom(src, pos + 2 + n, end,
                    CopyMem([outm EXCEPT !.len = outm.len + n], outm.len,
                            src, pos + 2, n), cap)
      [] op = 2 ->
           IF pos + 6 > end THEN [ok |-> FALSE, out |-> outm]
           ELSE LET v == ByteAt(src, pos + 1)
                    c == U32At(src, pos + 2) IN
             IF outm.len + c > cap THEN [ok |-> FALSE, out |-> outm]
             ELSE BrotliDecodeFrom(src, pos + 6, end,
                    SetMem([outm EXCEPT !.len = outm.len + c], outm.len, v, c),
                    cap)
      [] op = 3 ->
           IF pos + 3 > end THEN [ok |-> FALSE, out |-> outm]
           ELSE LET n == U16At(src, pos + 1) IN
             IF pos + 3 + n > end THEN [ok |-> FALSE, out |-> outm]
             ELSE BrotliDecodeFrom(src, pos + 3 + n, end, outm, cap)
      [] OTHER -> [ok |-> FALSE, out |-> outm]

\* BrotliDecompressBuffer(src_size, src, &uncompressed_size, dst)
BrotliDecompressBuffer(src, soff, src_size, cap) ==
  BrotliDecodeFrom(src, soff, soff + src_size, MkMem(0, 0), cap)

\* the first offset at or after p, below n, where explicitness changes
RECURSIVE SpanEnd(_, _, _, _)
SpanEnd(mem, p, n, lim) ==
  IF p + 1 >= n \/ p + 1 >= lim THEN Min(n, Min(lim, p + 1))
  ELSE IF ((p + 1) \in DOMAIN mem.m) # (p \in DOMAIN mem.m) THEN p + 1
  ELSE SpanEnd(mem, p + 1, n, lim)

GapEnd(mem, p) ==
  LET later == {j \in DOMAIN mem.m : j > p /\ j < mem.len}
  IN IF later = {} THEN mem.len
     ELSE CHOOSE j \in later : \A k \in later : j <= k

\* the blocks that encode mem from offset p on
RECURSIVE BrotliBlocks(_, _)
BrotliBlocks(mem, p) ==
  IF p >= mem.len THEN <<>>
  ELSE IF p \in DOMAIN mem.m
  THEN LET e == SpanEnd(mem, p, mem.len, p + 255)
       IN <<1, e - p>> \o BytesAt(mem, p, e - p) \o BrotliBlocks(mem, e)
  ELSE LET e == GapEnd(mem, p)
       IN <<2, mem.fill>> \o U32Bytes(e - p) \o BrotliBlocks(mem, e)

\* the same bytes, with the zero bytes left implicit: the compressor sees
\* bytes, whatever way they were written
Canon(mem) ==
  LET cells == IF mem.fill = 0
               THEN {j \in DOMAIN mem.m : j < mem.len /\ mem.m[j] # 0}
               ELSE {j \in 0 .. mem.len - 1 : ByteAt(mem, j) # 0}
  IN [len |-> mem.len, fill |-> 0, m |-> [i \in cells |-> ByteAt(mem, i)]]

\* BrotliCompress: the encoder may pad its stream with a metadata block
BrotliCompress(mem, pad) ==
  LET body == FromSeq(BrotliBlocks(Canon(mem), 0))
      padded == IF pad = 0 THEN body
                ELSE [PutSeq(body, body.len, <<3>> \o U16Bytes(pad))
                        EXCEPT !.len = body.len + 3 + pad]
  IN [PutSeq(padded, padded.len, <<0>>) EXCEPT !.len = padded.len + 1]

----------------------------------------------------------------------------
(* Variable-length integers *)

Base128Size(n) ==
  IF n < 128 THEN 1 ELSE IF n < 16384 THEN 2 ELSE IF n < 2097152 THEN 3
  ELSE IF n < 268435456 THEN 4 ELSE 5

RECURSIVE Base128Bytes(_, _)
Base128Bytes(len, size) ==
  IF size = 0 THEN <<>>
  ELSE LET b == (len \div Pow2(7 * (size - 1))) % 128
       IN <<IF size > 1 THEN b + 128 ELSE b>> \o Base128Bytes(len, size - 1)

StoreBase128(len) == Base128Bytes(len, Base128Size(len))

RECURSIVE ReadBase128From(_, _, _, _)
ReadBase128From(buf, off, i, result) ==
  IF i = 5 THEN [ok |-> FALSE, value |-> 0, off |-> off]
  ELSE IF off + 1 > buf.len THEN [ok |-> FALSE, value |-> 0, off |-> off]
  ELSE LET code == ByteAt(buf, off) IN
    IF result >= 536870912 THEN [ok |-> FALSE, value |-> 0, off |-> off]
    ELSE LET r == (result % 16777216) * 128 + (code % 128) IN
      IF code < 128 THEN [ok |-> TRUE, value |-> r, off |-> off + 1]
      ELSE ReadBase128From(buf, off + 1, i + 1, r)

ReadBase128(buf, off) == ReadBase128From(buf, off, 0, 0)

Read255UShort(buf, off) ==
  IF off + 1 > buf.len THEN [ok |-> FALSE, value |-> 0, off |-> off]
  ELSE LET code == ByteAt(buf, off) IN
    CASE code = 253 ->
           IF off + 3 > buf.len THEN [ok |-> FALSE, value |-> 0, off |-> off]
           ELSE [ok |-> TRUE, value |-> U16At(buf, off + 1), off |-> off + 3]
      [] code = 255 ->
           IF off + 2 > buf.len THEN [ok |-> FALSE, value |-> 0, off |-> off]
           ELSE [ok |-> TRUE, value |-> ByteAt(buf, off + 1) + 253,
                 off |-> off + 2]
      [] code = 254 ->
           IF off + 2 > buf.len THEN [ok |-> FALSE, value |-> 0, off |-> off]
           ELSE [ok |-> TRUE, value |-> ByteAt(buf, off + 1) + 253 * 2,
                 off |-> off + 2]
      [] OTHER -> [ok |-> TRUE, value |-> code, off |-> off + 1]

----------------------------------------------------------------------------
(* Table tags known to the directory encoding, by index *)

kKnownTags ==
  <<Tag4(99, 109, 97, 112),
     Tag4(104, 101, 97, 100),
     Tag4(104, 104, 101, 97),
     Tag4(104, 109, 116, 120),
     Tag4(109, 97, 120, 112),
     Tag4(110, 97, 109, 101),
     Tag4(79, 83, 47, 50),
     Tag4(112, 111, 115, 116),
     Tag4(99, 118, 116, 32),
     Tag4(102, 112, 103, 109),
     Tag4(103, 108, 121, 102),
     Tag4(108, 111, 99, 97),
     Tag4(112, 114, 101, 112),
     Tag4(67, 70, 70, 32),
     Tag4(86, 79, 82, 71),
     Tag4(69, 66, 68, 84),
     Tag4(69, 66, 76, 67),
     Tag4(103, 97, 115, 112),
     Tag4(104, 100, 109, 120),
     Tag4(107, 101, 114, 110),
     Tag4(76, 84, 83, 72),
     Tag4(80, 67, 76, 84),
     Tag4(86, 68, 77, 88),
     Tag4(118, 104, 101, 97),
     Tag4(118, 109, 116, 120),
     Tag4(66, 65, 83, 69),
     Tag4(71, 68, 69, 70),
     Tag4(71, 80, 79, 83),
     Tag4(71, 83, 85, 66),
     Tag4(69, 66, 83, 67),
     Tag4(74, 83, 84, 70),
     Tag4(77, 65, 84, 72),
     Tag4(67, 66, 68, 84),
     Tag4(67, 66, 76, 67),
     Tag4(67, 79, 76, 82),
     Tag4(67, 80, 65, 76),
     Tag4(83, 86, 71, 32),
     Tag4(115, 98, 105, 120),
     Tag4(97, 99, 110, 116),
     Tag4(97, 118, 97, 114),
     Tag4(98, 100, 97, 116),
     Tag4(98, 108, 111, 99),
     Tag4(98, 115, 108, 110),
     Tag4(99, 118, 97, 114),
     Tag4(102, 100, 115, 99),
     Tag4(102, 101, 97, 116),
     Tag4(102, 109, 116, 120),
     Tag4(102, 118, 97, 114),
     Tag4(103, 118, 97, 114),
     Tag4(104, 115, 116, 121),
     Tag4(106, 117, 115, 116),
     Tag4(108, 99, 97, 114),
     Tag4(109, 111, 114, 116),
     Tag4(109, 111, 114, 120),
     Tag4(111, 112, 98, 100),
     Tag4(112, 114, 111, 112),
     Tag4(116, 114, 97, 107),
     Tag4(90, 97, 112, 102),
     Tag4(83, 105, 108, 102),
     Tag4(71, 108, 97, 116),
     Tag4(71, 108, 111, 99),
     Tag4(70, 101, 97, 116),
     Tag4(83, 105, 108, 108)>>

RECURSIVE KnownTableIndexFrom(_, _)
KnownTableIndexFrom(tag, i) ==
  IF i >= 63 THEN 63
  ELSE IF tag = kKnownTags[i + 1] THEN i ELSE KnownTableIndexFrom(tag, i + 1)

KnownTableIndex(tag) == KnownTableIndexFrom(tag, 0)

----------------------------------------------------------------------------
(* The WOFF2 decoder *)

NewTable ==
  [tag |-> 0, flags |-> 0, src_offset |-> 0, src_length |-> 0,
   transform_length |-> 0, dst_offset |-> 0, dst_length |-> 0]

\* tables[idx]; an index past the end of the vector reads whatever lies
\* behind it in the heap
TableAt(s, idx) ==
  IF idx < Len(s.tables) THEN s.tables[idx + 1] ELSE s.ghost

DecFail(s) == [s EXCEPT !.pc = "done", !.ret = "false"]

AnySignature(signature) == FALSE

\* the signature check of ConvertWOFF2ToTTF
BadSignature(signature) == signature # kWoff2Signature

\* ConvertWOFF2ToTTF, the fixed part of the header
ReadHeader(s, d) ==
  LET length == d.len IN
  IF length < 4 \/ BadSignature(U32At(d, 0)) \/ length < 8 THEN DecFail(s)
  ELSE IF length < 12 \/ length # U32At(d, 8) THEN DecFail(s)
  ELSE IF length < 14 \/ U16At(d, 12) = 0 THEN DecFail(s)
  ELSE IF length < 20 THEN DecFail(s)
  ELSE IF length < 24 THEN DecFail(s)
  ELSE IF length < 28 THEN DecFail(s)
  ELSE IF length < 40 THEN DecFail(s)
  ELSE LET meta_offset == U32At(d, 28)
           meta_length == U32At(d, 32) IN
  IF meta_offset # 0
     /\ (meta_offset >= length \/ length - meta_offset < meta_length)
  THEN DecFail(s)
  ELSE IF length < 48 THEN DecFail(s)
  ELSE LET priv_offset == U32At(d, 40)
           priv_length == U32At(d, 44) IN
  IF priv_offset # 0
     /\ (priv_offset >= length \/ length - priv_offset < priv_length)
  THEN DecFail(s)
  ELSE [s EXCEPT !.pc = "directory", !.offset = 48,
                 !.flavor = U32At(d, 4), !.num_tables = U16At(d, 12),
                 !.compressed_length = U32At(d, 20),
                 !.meta_offset = meta_offset, !.meta_length = meta_length,
                 !.priv_offset = priv_offset, !.priv_length = priv_length]

AnyLocaLength(tag, transform_length) == FALSE

\* the check of ReadTableDirectory on a transformed loca
BadLocaLength(tag, transform_length) ==
  tag = kLocaTableTag /\ transform_length # 0

RECURSIVE ReadTableDirectoryFrom(_, _, _, _, _)
ReadTableDirectoryFrom(d, off, i, num_tables, tables) ==
  IF i >= num_tables THEN [ok |-> TRUE, tables |-> tables, off |-> off]
  ELSE IF off + 1 > d.len THEN [ok |-> FALSE, tables |-> tables, off |-> off]
  ELSE
    LET flag_byte == ByteAt(d, off)
        arbitrary == (flag_byte % 64) = 63
        bad == [ok |-> FALSE, tables |-> tables, off |-> off] IN
    IF arbitrary /\ off + 5 > d.len THEN bad
    ELSE
      LET tag == IF arbitrary THEN U32At(d, off + 1)
                 ELSE kKnownTags[(flag_byte % 64) + 1]
          off1 == IF arbitrary THEN off + 5 ELSE off + 1 IN
      IF flag_byte >= 64 THEN bad
      ELSE
        LET transformed == tag = kGlyfTableTag \/ tag = kLocaTableTag
            flags == (IF i > 0 THEN kWoff2FlagsContinueStream ELSE 0)
                     + (IF transformed THEN kWoff2FlagsTransform ELSE 0)
            dl == ReadBase128(d, off1) IN
        IF ~dl.ok THEN bad
        ELSE
          LET tl == IF transformed THEN ReadBase128(d, dl.off)
                    ELSE [ok |-> TRUE, value |-> dl.value, off |-> dl.off] IN
          IF ~tl.ok THEN bad
          ELSE IF transformed /\ BadLocaLength(tag, tl.value) THEN bad
          ELSE ReadTableDirectoryFrom(d, tl.off, i + 1, num_tables,
                 Append(tables,
                   [NewTable EXCEPT !.tag = tag, !.flags = flags,
                                    !.transform_length = tl.value,
                                    !.dst_length = dl.value]))

ReadTableDirectory(d, off, num_tables) ==
  ReadTableDirectoryFrom(d, off, 0, num_tables, <<>>)

DecDirectory(s, d) ==
  LET r == ReadTableDirectory(d, s.offset, s.num_tables) IN
  IF ~r.ok THEN DecFail(s)
  ELSE [s EXCEPT !.pc = "collection", !.offset = r.off, !.tables = r.tables]

MapPut(f, k, v) == [x \in (DOMAIN f) \cup {k} |-> IF x = k THEN v ELSE f[x]]

\* the table indices of one font of a collection
RECURSIVE ReadFontIndices(_, _, _, _, _, _, _)
ReadFontIndices(s, d, off, j, indices, glyf_idx, loca_idx) ==
  IF j = 0
  THEN [ok |-> TRUE, off |-> off, indices |-> indices,
        glyf_idx |-> glyf_idx, loca_idx |-> loca_idx]
  ELSE
    LET r == Read255UShort(d, off) IN
    IF ~r.ok
    THEN [ok |-> FALSE, off |-> off, indices |-> indices,
          glyf_idx |-> glyf_idx, loca_idx |-> loca_idx]
    ELSE
      LET table == TableAt(s, r.value) IN
      ReadFontIndices(s, d, r.off, j - 1, Append(indices, r.value),
        IF table.tag = kGlyfTableTag THEN r.value ELSE glyf_idx,
        IF table.tag = kLocaTableTag THEN r.value ELSE loca_idx)

RECURSIVE ReadCollectionFonts(_, _, _)
ReadCollectionFonts(s, d, i) ==
  IF i = 0 THEN [s EXCEPT !.pc = "offsets"]
  ELSE
    LET nt == Read255UShort(d, s.offset) IN
    IF ~nt.ok \/ nt.value = 0 THEN DecFail(s)
    ELSE IF nt.off + 4 > d.len THEN DecFail(s)
    ELSE
      LET r == ReadFontIndices(s, d, nt.off + 4, nt.value, <<>>, -1, -1) IN
      IF ~r.ok THEN DecFail(s)
      ELSE IF (r.glyf_idx = -1) # (r.loca_idx = -1) THEN DecFail(s)
      ELSE
        ReadCollectionFonts(
          [s EXCEPT !.offset = r.off,
                    !.ttc_fonts = Append(@, [flavor |-> U32At(d, nt.off),
                                             dst_offset |-> 0,
                                             table_indices |-> r.indices]),
                    !.loca_by_glyf =
                       IF r.glyf_idx # -1 /\ r.loca_idx # -1
                       THEN MapPut(@, r.glyf_idx, r.loca_idx) ELSE @],
          d, i - 1)

\* ConvertWOFF2ToTTF, the collection directory
DecCollection(s, d) ==
  IF s.flavor # kTtcFontFlavor THEN [s EXCEPT !.pc = "offsets"]
  ELSE IF s.offset + 4 > d.len THEN DecFail(s)
  ELSE
    LET nf == Read255UShort(d, s.offset + 4) IN
    IF ~nf.ok \/ nf.value = 0 THEN DecFail(s)
    ELSE ReadCollectionFonts(
           [s EXCEPT !.header_version = U32At(d, s.offset),
                     !.offset = nf.off], d, nf.value)

CollectionHeaderSize(header_version, num_fonts) ==
  (IF header_version = 131072 THEN 12 ELSE 0)
  + (IF header_version = 65536 \/ header_version = 131072
     THEN 12 + 4 * num_fonts ELSE 0)

ComputeOffsetToFirstTable(header_version, num_tables, ttc_fonts) ==
  IF header_version # 0
  THEN CollectionHeaderSize(header_version, Len(ttc_fonts))
       + kSfntHeaderSize * Len(ttc_fonts)
       + SumSeq([k \in 1 .. Len(ttc_fonts) |->
                   kSfntEntrySize * Len(ttc_fonts[k].table_indices)])
  ELSE kSfntHeaderSize + kSfntEntrySize * num_tables

\* the running source and destination offsets of the tables
RECURSIVE AssignOffsets(_, _, _, _, _, _)
AssignOffsets(tables, i, src_offset, dst_offset, compressed_length, sum) ==
  IF i > Len(tables)
  THEN [tables |-> tables, src_offset |-> src_offset,
        dst_offset |-> dst_offset, uncompressed_sum |-> sum]
  ELSE
    LET src_length == IF i = 1 THEN compressed_length ELSE 0 IN
    AssignOffsets(
      [tables EXCEPT ![i].src_offset = src_offset,
                     ![i].src_length = src_length,
                     ![i].dst_offset = dst_offset],
      i + 1, Round4(src_offset + src_length),
      Round4(dst_offset + tables[i].dst_length), compressed_length,
      sum + src_length)

\* std::sort of the tables by tag
RECURSIVE InsertByTag(_, _)
InsertByTag(sorted, t) ==
  IF sorted = <<>> THEN <<t>>
  ELSE IF t.tag < sorted[1].tag THEN <<t>> \o sorted
  ELSE <<sorted[1]>> \o InsertByTag(Tail(sorted), t)

RECURSIVE SortTables(_)
SortTables(tables) ==
  IF tables = <<>> THEN <<>>
  ELSE InsertByTag(SortTables(SubSeq(tables, 1, Len(tables) - 1)),
                   tables[Len(tables)])

RECURSIVE SortedSeqOf(_)
SortedSeqOf(S) ==
  IF S = {} THEN <<>>
  ELSE LET x == CHOOSE y \in S : \A z \in S : y <= z
       IN <<x>> \o SortedSeqOf(S \ {x})

\* one font's indices, rewritten through sorted_index_by_tag
SortFontIndices(s, indices) ==
  LET tags == SortedSeqOf({TableAt(s, indices[k]).tag : k \in 1 .. Len(indices)})
      last(tag) == CHOOSE k \in 1 .. Len(indices) :
                     /\ TableAt(s, indices[k]).tag = tag
                     /\ \A k2 \in 1 .. Len(indices) :
                          TableAt(s, indices[k2]).tag = tag => k2 <= k
  IN [k \in 1 .. Len(indices) |->
        IF k <= Len(tags) THEN indices[last(tags[k])] ELSE indices[k]]

\* ConvertWOFF2ToTTF, from the first table offset to the end of the
\* consistency checks on the container
DecOffsets(s, d) ==
  LET first_table_offset ==
        ComputeOffsetToFirstTable(s.header_version, s.num_tables, s.ttc_fonts)
  IN
  IF first_table_offset > s.result_length THEN DecFail(s)
  ELSE
    LET a == AssignOffsets(s.tables, 1, s.offset, first_table_offset,
                           s.compressed_length, 0) IN
    IF a.uncompressed_sum > kMaxUncompressedSum THEN DecFail(s)
    ELSE IF a.src_offset > d.len \/ a.dst_offset # s.result_length
    THEN DecFail(s)
    ELSE
      LET s1 == [s EXCEPT !.tables = a.tables]
          s2 == IF s.header_version # 0
                THEN [s1 EXCEPT !.ttc_fonts =
                        [k \in 1 .. Len(s.ttc_fonts) |->
                           [s.ttc_fonts[k] EXCEPT !.table_indices =
                              SortFontIndices(s1, @)]]]
                ELSE [s1 EXCEPT !.tables = SortTables(a.tables)] IN
      IF s.meta_offset # 0 /\ a.src_offset # s.meta_offset THEN DecFail(s)
      ELSE
        LET so1 == IF s.meta_offset # 0
                   THEN Round4(s.meta_offset + s.meta_length)
                   ELSE a.src_offset IN
        IF s.priv_offset # 0 /\ so1 # s.priv_offset THEN DecFail(s)
        ELSE
          LET so2 == IF s.priv_offset # 0
                     THEN Round4(s.priv_offset + s.priv_length)
                     ELSE so1 IN
          IF so2 # Round4(d.len) THEN DecFail(s)
          ELSE [s2 EXCEPT !.pc = "build"]

----------------------------------------------------------------------------
(* Reconstruction of the glyf and loca tables from the transformed glyf *)

RECURSIVE BitAnd(_, _)
BitAnd(a, b) ==
  IF a = 0 \/ b = 0 THEN 0
  ELSE (a % 2) * (b % 2) + 2 * BitAnd(a \div 2, b \div 2)

Store16(mem, off, x) == PutSeq(mem, off, U16Bytes(x))

StoreU32(mem, off, x) == PutSeq(mem, off, U32Bytes(x))

Unsigned(flag, baseval) == baseval

\* the sign taken from the second bit of flag
SignOfSecondBit(flag, baseval) ==
  IF (flag \div 2) % 2 = 1 THEN baseval ELSE 0 - baseval

WithSign(flag, baseval) == IF flag % 2 = 1 THEN baseval ELSE 0 - baseval

\* the deltas of one point and the number of bytes they take
TripletDelta(flag, in, t) ==
  IF flag < 10
  THEN [dx |-> 0,
        dy |-> WithSign(flag, BitAnd(flag, 14) * 128 + ByteAt(in, t))]
  ELSE IF flag < 20
  THEN [dx |-> WithSign(flag, BitAnd(flag - 10, 14) * 128 + ByteAt(in, t)),
        dy |-> 0]
  ELSE IF flag < 84
  THEN LET b0 == flag - 20
           b1 == ByteAt(in, t) IN
       [dx |-> WithSign(flag, 1 + BitAnd(b0, 48) + (b1 \div 16)),
        dy |-> WithSign(flag \div 2, 1 + BitAnd(b0, 12) * 4 + (b1 % 16))]
  ELSE IF flag < 120
  THEN LET b0 == flag - 84 IN
       [dx |-> WithSign(flag, 1 + (b0 \div 12) * 256 + ByteAt(in, t)),
        dy |-> WithSign(flag \div 2,
                        1 + ((b0 % 12) \div 4) * 256 + ByteAt(in, t + 1))]
  ELSE IF flag < 124
  THEN LET b2 == ByteAt(in, t + 1) IN
       [dx |-> WithSign(flag, ByteAt(in, t) * 16 + (b2 \div 16)),
        dy |-> WithSign(flag \div 2, (b2 % 16) * 256 + ByteAt(in, t + 2))]
  ELSE [dx |-> WithSign(flag, ByteAt(in, t) * 256 + ByteAt(in, t + 1)),
        dy |-> WithSign(flag \div 2,
                        ByteAt(in, t + 2) * 256 + ByteAt(in, t + 3))]

RECURSIVE TripletDecodeFrom(_, _, _, _, _, _, _, _, _, _)
TripletDecodeFrom(fl, fo, in, io, in_size, n_points, i, t, x, y) ==
  IF i >= n_points THEN [ok |-> TRUE, points |-> <<>>, consumed |-> t]
  ELSE
    LET raw == ByteAt(fl, fo + i)
        on_curve == raw < 128
        flag == raw % 128
        n_data_bytes == IF flag < 84 THEN 1 ELSE IF flag < 120 THEN 2
                        ELSE IF flag < 124 THEN 3 ELSE 4 IN
    IF t + n_data_bytes > in_size
    THEN [ok |-> FALSE, points |-> <<>>, consumed |-> t]
    ELSE
      LET dlt == TripletDelta(flag, in, io + t)
          rest == TripletDecodeFrom(fl, fo, in, io, in_size, n_points, i + 1,
                                    t + n_data_bytes, x + dlt.dx, y + dlt.dy)
      IN [ok |-> rest.ok,
          points |-> <<[x |-> x + dlt.dx, y |-> y + dlt.dy,
                        on_curve |-> on_curve]>> \o rest.points,
          consumed |-> rest.consumed]

TripletDecode(fl, fo, in, io, in_size, n_points) ==
  IF n_points > in_size THEN [ok |-> FALSE, points |-> <<>>, consumed |-> 0]
  ELSE TripletDecodeFrom(fl, fo, in, io, in_size, n_points, 0, 0, 0, 0)

PointFlag(p, last_x, last_y) ==
  LET dx == p.x - last_x
      dy == p.y - last_y
  IN (IF p.on_curve THEN 1 ELSE 0)
     + (IF dx = 0 THEN 16
        ELSE IF dx > -256 /\ dx < 256 THEN 2 + (IF dx > 0 THEN 16 ELSE 0)
        ELSE 0)
     + (IF dy = 0 THEN 32
        ELSE IF dy > -256 /\ dy < 256 THEN 4 + (IF dy > 0 THEN 32 ELSE 0)
        ELSE 0)

\* every delta as a signed short
TwoByteDelta(d) == U16Bytes(d)

DeltaBytes(d) ==
  IF d = 0 THEN <<>>
  ELSE IF d > -256 /\ d < 256 THEN <<IF d < 0 THEN 0 - d ELSE d>>
  ELSE U16Bytes(d)

\* one turn of the first loop of StorePoints: st.fl is what has been
\* written from flag_offset on, st.room the number of bytes that may be
\* written there
StoreFlag(p, st) ==
  IF ~st.ok THEN st
  ELSE
    LET flag == PointFlag(p, st.last_x, st.last_y) IN
    IF flag = st.last_flag /\ st.repeat_count # 255
    THEN [st EXCEPT !.fl = [@ EXCEPT ![Len(@)] =
                              IF HasBit(@, 3) THEN @ ELSE @ + Pow2(3)],
                    !.repeat_count = @ + 1,
                    !.last_x = p.x, !.last_y = p.y, !.last_flag = flag]
    ELSE
      LET fl1 == IF st.repeat_count # 0
                 THEN Append(st.fl, st.repeat_count) ELSE st.fl IN
      IF st.repeat_count # 0 /\ Len(st.fl) >= st.room
      THEN [st EXCEPT !.ok = FALSE]
      ELSE IF Len(fl1) >= st.room THEN [st EXCEPT !.ok = FALSE, !.fl = fl1]
      ELSE [st EXCEPT !.fl = Append(fl1, flag), !.repeat_count = 0,
                      !.last_x = p.x, !.last_y = p.y, !.last_flag = flag]

\* the turns of the loop for points[lo .. hi], in their order
RECURSIVE StoreFlagsOf(_, _, _, _)
StoreFlagsOf(points, lo, hi, st) ==
  IF ~st.ok \/ lo > hi THEN st
  ELSE IF lo = hi THEN StoreFlag(points[lo], st)
  ELSE StoreFlagsOf(points, (lo + hi) \div 2 + 1, hi,
                    StoreFlagsOf(points, lo, (lo + hi) \div 2, st))

\* the flag bytes of StorePoints
StoreFlags(points, i, fl, room, last_flag, repeat_count, last_x, last_y) ==
  Bind(StoreFlagsOf(points, i, Len(points),
                    [ok |-> TRUE, fl |-> fl, room |-> room,
                     last_flag |-> last_flag, repeat_count |-> repeat_count,
                     last_x |-> last_x, last_y |-> last_y]), LAMBDA st :
    IF ~st.ok THEN [ok |-> FALSE, fl |-> st.fl]
    ELSE IF st.repeat_count # 0
    THEN IF Len(st.fl) >= room THEN [ok |-> FALSE, fl |-> st.fl]
         ELSE [ok |-> TRUE, fl |-> Append(st.fl, st.repeat_count)]
    ELSE [ok |-> TRUE, fl |-> st.fl])

\* the sequences of ss[lo .. hi] one after the other
RECURSIVE ConcatRange(_, _, _)
ConcatRange(ss, lo, hi) ==
  IF lo > hi THEN <<>>
  ELSE IF lo = hi THEN ss[lo]
  ELSE ConcatRange(ss, lo, (lo + hi) \div 2)
         \o ConcatRange(ss, (lo + hi) \div 2 + 1, hi)

\* the bytes of the deltas of one axis of points[i ..], last being the
\* coordinate before them
CoordBytes(points, i, last, axis) ==
  ConcatRange([k \in 1 .. Len(points) |->
                 DeltaBytes((IF axis = 0 THEN points[k].x ELSE points[k].y)
                            - (IF k = i THEN last
                               ELSE IF axis = 0 THEN points[k - 1].x
                               ELSE points[k - 1].y))],
              i, Len(points))

\* StorePoints; gb is the offset of the glyph in mem
StorePoints(points, n_contours, instruction_length, mem, gb, dst_size) ==
  Bind(kEndPtsOfContoursOffset + 2 * n_contours + 2 + instruction_length,
       LAMBDA flag_offset0 :
  Bind(StoreFlags(points, 1, <<>>, dst_size - flag_offset0, -1, 0, 0, 0),
       LAMBDA f :
  Bind(PutSeq(mem, gb + flag_offset0, f.fl), LAMBDA mem1 :
  Bind(CoordBytes(points, 1, 0, 0) \o CoordBytes(points, 1, 0, 1),
       LAMBDA xy :
    IF ~f.ok THEN [ok |-> FALSE, mem |-> mem1, glyph_size |-> 0]
    ELSE IF flag_offset0 + Len(f.fl) + Len(xy) > dst_size
    THEN [ok |-> FALSE, mem |-> mem1, glyph_size |-> 0]
    ELSE [ok |-> TRUE,
          mem |-> PutSeq(mem1, gb + flag_offset0 + Len(f.fl), xy),
          glyph_size |-> flag_offset0 + Len(f.fl) + Len(xy)]))))

MinOf(S) == CHOOSE x \in S : \A y \in S : x <= y

MaxOf(S) == CHOOSE x \in S : \A y \in S : x >= y

\* ComputeBbox; gb is the offset of the glyph in mem
ComputeBbox(points, mem, gb) ==
  LET xsv == {points[k].x : k \in 1 .. Len(points)}
      ysv == {points[k].y : k \in 1 .. Len(points)}
      x_min == IF xsv = {} THEN 0 ELSE MinOf(xsv)
      y_min == IF ysv = {} THEN 0 ELSE MinOf(ysv)
      x_max == IF xsv = {} THEN 0 ELSE MaxOf(xsv)
      y_max == IF ysv = {} THEN 0 ELSE MaxOf(ysv)
  IN PutSeq(mem, gb + 2, U16Bytes(x_min) \o U16Bytes(y_min)
                           \o U16Bytes(x_max) \o U16Bytes(y_max))

\* the composite stream from offset off on: the size of one glyph's records
RECURSIVE CompositeScan(_, _, _)
CompositeScan(cs, off, have) ==
  IF off + 2 > cs.len THEN [ok |-> FALSE, off |-> off, have |-> have]
  ELSE
    LET flags == U16At(cs, off)
        arg_size == 2 + (IF HasBit(flags, 0) THEN 4 ELSE 2)
                    + (IF HasBit(flags, 3) THEN 2
                       ELSE IF HasBit(flags, 6) THEN 4
                       ELSE IF HasBit(flags, 7) THEN 8 ELSE 0)
        have1 == have \/ HasBit(flags, 8) IN
    IF off + 2 + arg_size > cs.len
    THEN [ok |-> FALSE, off |-> off + 2, have |-> have1]
    ELSE IF HasBit(flags, 5) THEN CompositeScan(cs, off + 2 + arg_size, have1)
    ELSE [ok |-> TRUE, off |-> off + 2 + arg_size, have |-> have1]

\* ProcessComposite; gb is the offset of the glyph in mem
ProcessComposite(cs, off, mem, gb, dst_size) ==
  Bind(CompositeScan(cs, off, FALSE), LAMBDA r :
    IF ~r.ok \/ (r.off - off) + kCompositeGlyphBegin > dst_size
    THEN [ok |-> FALSE, mem |-> mem, off |-> r.off, glyph_size |-> 0,
          have_instructions |-> FALSE]
    ELSE [ok |-> TRUE,
          mem |-> CopyMem(Store16(mem, gb, 65535), gb + kCompositeGlyphBegin,
                          cs, off, r.off - off),
          off |-> r.off,
          glyph_size |-> kCompositeGlyphBegin + (r.off - off),
          have_instructions |-> r.have])

\* ProcessBboxStream; gb is the offset of the glyf table in mem
RECURSIVE ProcessBboxFrom(_, _, _, _, _, _, _, _)
ProcessBboxFrom(bs, off, i, n_glyphs, loca_values, mem, gb, glyf_buf_length) ==
  IF i >= n_glyphs THEN [ok |-> TRUE, mem |-> mem]
  ELSE IF HasBit(ByteAt(bs, i \div 8), 7 - (i % 8))
  THEN LET loca_offset == loca_values[i + 1] IN
       IF loca_values[i + 2] - loca_offset < kEndPtsOfContoursOffset
       THEN [ok |-> FALSE, mem |-> mem]
       ELSE IF glyf_buf_length < 2 + 10
               \/ loca_offset > glyf_buf_length - 2 - 10
       THEN [ok |-> FALSE, mem |-> mem]
       ELSE IF off + 8 > bs.len THEN [ok |-> FALSE, mem |-> mem]
       ELSE ProcessBboxFrom(bs, off + 8, i + 1, n_glyphs, loca_values,
              CopyMem(mem, gb + loca_offset + 2, bs, off, 8), gb,
              glyf_buf_length)
  ELSE ProcessBboxFrom(bs, off, i + 1, n_glyphs, loca_values, mem, gb,
                       glyf_buf_length)

ProcessBboxStream(bs, n_glyphs, loca_values, mem, gb, glyf_buf_length) ==
  LET bitmap_length == ((n_glyphs + 31) \div 32) * 4 IN
  IF n_glyphs >= 65536 \/ Len(loca_values) # n_glyphs + 1
  THEN [ok |-> FALSE, mem |-> mem]
  ELSE IF bitmap_length > bs.len THEN [ok |-> FALSE, mem |-> mem]
  ELSE ProcessBboxFrom(bs, bitmap_length, 0, n_glyphs, loca_values, mem, gb,
                       glyf_buf_length)

RECURSIVE LocaBytes(_, _)
LocaBytes(loca_values, index_format) ==
  IF loca_values = <<>> THEN <<>>
  ELSE (IF index_format # 0 THEN U32Bytes(loca_values[1])
        ELSE U16Bytes(loca_values[1] \div 2))
       \o LocaBytes(Tail(loca_values), index_format)

\* StoreLoca; lb is the offset of the loca table in mem
StoreLoca(loca_values, index_format, mem, lb, dst_size) ==
  LET offset_size == IF index_format # 0 THEN 4 ELSE 2 IN
  IF offset_size * Len(loca_values) > dst_size
  THEN [ok |-> FALSE, mem |-> mem]
  ELSE [ok |-> TRUE, mem |-> PutSeq(mem, lb, LocaBytes(loca_values, index_format))]

RECURSIVE ReadContourSizes(_, _, _)
ReadContourSizes(nps, off, j) ==
  IF j = 0 THEN [ok |-> TRUE, off |-> off, sizes |-> <<>>]
  ELSE LET r == Read255UShort(nps, off) IN
    IF ~r.ok THEN [ok |-> FALSE, off |-> off, sizes |-> <<>>]
    ELSE LET rest == ReadContourSizes(nps, r.off, j - 1)
         IN [ok |-> rest.ok, off |-> rest.off,
             sizes |-> <<r.value>> \o rest.sizes]

RECURSIVE EndPoints(_, _)
EndPoints(sizes, end_point) ==
  IF sizes = <<>> THEN <<>>
  ELSE <<end_point + sizes[1]>> \o EndPoints(Tail(sizes), end_point + sizes[1])

\* the end points written before one of them is found too large
RECURSIVE EndPointBytes(_)
EndPointBytes(ends) ==
  IF ends = <<>> THEN <<>>
  ELSE IF ends[1] >= 65536 THEN <<>>
  ELSE U16Bytes(ends[1]) \o EndPointBytes(Tail(ends))

\* the instructions and the points of a simple glyph, after its header
SimpleGlyphBody(st, g, n_contours, gb, glyf_dst_size, np, td, mem2) ==
  Bind(Read255UShort(st.glyph, g.gl_off + td.consumed), LAMBDA is :
  Bind(kEndPtsOfContoursOffset + 2 * n_contours, LAMBDA header_size :
    IF ~is.ok THEN [g EXCEPT !.ok = FALSE, !.mem = mem2]
    ELSE IF glyf_dst_size - header_size < is.value + 2
    THEN [g EXCEPT !.ok = FALSE, !.mem = mem2]
    ELSE
      Bind(Store16(mem2, gb + header_size, is.value), LAMBDA mem3 :
        IF g.in_off + is.value > st.instruction.len
        THEN [g EXCEPT !.ok = FALSE, !.mem = mem3]
        ELSE
          Bind(StorePoints(td.points, n_contours, is.value,
                 CopyMem(mem3, gb + header_size + 2, st.instruction,
                         g.in_off, is.value),
                 gb, glyf_dst_size), LAMBDA sp :
            [g EXCEPT !.ok = sp.ok, !.mem = sp.mem,
                      !.np_off = np.off,
                      !.fl_off = g.fl_off + SumSeq(np.sizes),
                      !.gl_off = is.off,
                      !.in_off = g.in_off + is.value,
                      !.glyph_size = sp.glyph_size]))))

\* one simple glyph of ReconstructGlyf; g carries the stream positions and
\* the output, gb is the offset of the glyph in the output
SimpleGlyph(st, g, n_contours, gb, glyf_dst_size) ==
  Bind(ReadContourSizes(st.n_points, g.np_off, n_contours), LAMBDA np :
    IF ~np.ok THEN [g EXCEPT !.ok = FALSE]
    ELSE IF SumSeq(np.sizes) > st.flag.len - g.fl_off
    THEN [g EXCEPT !.ok = FALSE]
    ELSE
      Bind(TripletDecode(st.flag, g.fl_off, st.glyph, g.gl_off,
                         st.glyph.len - g.gl_off, SumSeq(np.sizes)),
           LAMBDA td :
        IF ~td.ok THEN [g EXCEPT !.ok = FALSE]
        ELSE IF glyf_dst_size < kEndPtsOfContoursOffset + 2 * n_contours
        THEN [g EXCEPT !.ok = FALSE]
        ELSE
          Bind(EndPoints(np.sizes, -1), LAMBDA ends :
          Bind(PutSeq(ComputeBbox(td.points, Store16(g.mem, gb, n_contours),
                                  gb),
                      gb + kEndPtsOfContoursOffset, EndPointBytes(ends)),
               LAMBDA mem2 :
            IF \E k \in 1 .. Len(ends) : ends[k] >= 65536
            THEN [g EXCEPT !.ok = FALSE, !.mem = mem2]
            ELSE SimpleGlyphBody(st, g, n_contours, gb, glyf_dst_size, np, td,
                                 mem2)))))

\* one composite glyph of ReconstructGlyf
CompositeGlyph(st, g, gb, glyf_dst_size) ==
  Bind(ProcessComposite(st.composite, g.co_off, g.mem, gb, glyf_dst_size),
       LAMBDA pc :
    IF ~pc.ok THEN [g EXCEPT !.ok = FALSE]
    ELSE IF ~pc.have_instructions
    THEN [g EXCEPT !.mem = pc.mem, !.co_off = pc.off,
                   !.glyph_size = pc.glyph_size]
    ELSE
      Bind(Read255UShort(st.glyph, g.gl_off), LAMBDA is :
        IF ~is.ok THEN [g EXCEPT !.ok = FALSE, !.mem = pc.mem]
        ELSE IF is.value + 2 > glyf_dst_size - pc.glyph_size
        THEN [g EXCEPT !.ok = FALSE, !.mem = pc.mem]
        ELSE
          Bind(Store16(pc.mem, gb + pc.glyph_size, is.value), LAMBDA mem1 :
            IF g.in_off + is.value > st.instruction.len
            THEN [g EXCEPT !.ok = FALSE, !.mem = mem1]
            ELSE [g EXCEPT !.mem = CopyMem(mem1, gb + pc.glyph_size + 2,
                                           st.instruction, g.in_off, is.value),
                           !.co_off = pc.off, !.gl_off = is.off,
                           !.in_off = g.in_off + is.value,
                           !.glyph_size = pc.glyph_size + is.value + 2])))

\* one glyph of ReconstructGlyf, of n_contours contours
OneGlyph(st, g0, n_contours, gb, glyf_dst_size) ==
  IF n_contours = 65535 THEN CompositeGlyph(st, g0, gb, glyf_dst_size)
  ELSE IF n_contours > 0
  THEN SimpleGlyph(st, g0, n_contours, gb, glyf_dst_size)
  ELSE g0

\* the glyph loop of ReconstructGlyf; tb is the offset of glyf in the output
RECURSIVE GlyphLoop(_, _, _, _, _, _)
GlyphLoop(st, g, i, num_glyphs, tb, dst_size) ==
  IF i >= num_glyphs THEN g
  ELSE IF g.nc_off + 2 > st.n_contour.len THEN [g EXCEPT !.ok = FALSE]
  ELSE
    Bind(OneGlyph(st, [g EXCEPT !.nc_off = @ + 2, !.glyph_size = 0],
                  U16At(st.n_contour, g.nc_off), tb + g.loca_offset,
                  dst_size - g.loca_offset), LAMBDA g1 :
      IF ~g1.ok THEN g1
      ELSE IF Round4(g1.glyph_size) > dst_size - g.loca_offset
      THEN [g1 EXCEPT !.ok = FALSE]
      ELSE GlyphLoop(st,
             [g1 EXCEPT !.loca_values = Append(@, g.loca_offset),
                        !.loca_offset = @ + Round4(g1.glyph_size)],
             i + 1, num_glyphs, tb, dst_size))

\* the seven substreams of the transformed glyf table
RECURSIVE SubStreams(_, _, _, _, _)
SubStreams(tbuf, base, data_size, i, offset) ==
  IF i >= 7 THEN [ok |-> TRUE, streams |-> <<>>]
  ELSE
    LET substream_size == U32At(tbuf, base + 8 + 4 * i) IN
    IF substream_size > data_size - offset
    THEN [ok |-> FALSE, streams |-> <<>>]
    ELSE
      Bind(SubStreams(tbuf, base, data_size, i + 1, offset + substream_size),
           LAMBDA rest :
        [ok |-> rest.ok,
         streams |-> <<SliceMem(tbuf, base + offset, substream_size)>>
                     \o rest.streams])

GlyphStart(mem) ==
  [ok |-> TRUE, mem |-> mem, nc_off |-> 0, np_off |-> 0, fl_off |-> 0,
   gl_off |-> 0, co_off |-> 0, in_off |-> 0, loca_offset |-> 0,
   loca_values |-> <<>>, glyph_size |-> 0]

\* ReconstructGlyf, from the glyph loop on
ReconstructGlyphs(st, num_glyphs, index_format, mem, tb, dst_size, lb, loca_size) ==
  Bind(GlyphLoop(st, GlyphStart(mem), 0, num_glyphs, tb, dst_size), LAMBDA g :
    IF ~g.ok THEN [ok |-> FALSE, mem |-> g.mem]
    ELSE
      Bind(Append(g.loca_values, g.loca_offset), LAMBDA loca_values :
      Bind(ProcessBboxStream(st.bbox, num_glyphs, loca_values, g.mem, tb,
                             dst_size), LAMBDA bb :
        IF ~bb.ok THEN bb
        ELSE StoreLoca(loca_values, index_format, bb.mem, lb, loca_size))))

\* ReconstructGlyf: the transformed table is tbuf[base .. base + data_size),
\* glyf goes to mem[tb .. tb + dst_size), loca to mem[lb .. lb + loca_size)
ReconstructGlyf(tbuf, base, data_size, mem, tb, dst_size, lb, loca_size) ==
  IF data_size < 8 THEN [ok |-> FALSE, mem |-> mem]
  ELSE IF 36 > data_size THEN [ok |-> FALSE, mem |-> mem]
  ELSE
    Bind(SubStreams(tbuf, base, data_size, 0, 36), LAMBDA ss :
      IF ~ss.ok THEN [ok |-> FALSE, mem |-> mem]
      ELSE
        Bind([n_contour |-> ss.streams[1], n_points |-> ss.streams[2],
              flag |-> ss.streams[3], glyph |-> ss.streams[4],
              composite |-> ss.streams[5], bbox |-> ss.streams[6],
              instruction |-> ss.streams[7]], LAMBDA st :
          ReconstructGlyphs(st, U16At(tbuf, base + 4), U16At(tbuf, base + 6),
                            mem, tb, dst_size, lb, loca_size)))

----------------------------------------------------------------------------
(* Checksums of the rebuilt font *)

LaneSum(mem, off, n, k) ==
  LET cells == {j \in DOMAIN mem.m :
                  j >= off /\ j < off + 4 * n /\ (j - off) % 4 = k}
  IN SumSet(cells, mem.m)
     + (IF mem.fill = 0 THEN 0 ELSE mem.fill * (n - Cardinality(cells)))

\* the sum modulo 2^32 of the big-endian words that cover size bytes
ComputeULongSum(mem, off, size) ==
  LET n == (size + 3) \div 4
      lo == LaneSum(mem, off, n, 2) * 256 + LaneSum(mem, off, n, 3)
      hi == LaneSum(mem, off, n, 0) * 256 + LaneSum(mem, off, n, 1)
            + (lo \div 65536)
  IN <<hi % 65536, lo % 65536>>

StoreW32(mem, off, w) == PutSeq(mem, off, WBytes(w))

\* the first table with the tag, as an index from 1, or 0
FindTable(tables, tag) ==
  IF \E k \in 1 .. Len(tables) : tables[k].tag = tag
  THEN MinOf({k \in 1 .. Len(tables) : tables[k].tag = tag}) ELSE 0

\* the checksum of each table into its directory entry, entries at first
RECURSIVE StoreTableChecksums(_, _, _, _, _)
StoreTableChecksums(mem, tabs, i, first, sum) ==
  IF i > Len(tabs) THEN [mem |-> mem, sum |-> sum]
  ELSE
    LET checksum == ComputeULongSum(mem, tabs[i].dst_offset, tabs[i].dst_length)
    IN StoreTableChecksums(
         StoreW32(mem, first + (i - 1) * kSfntEntrySize + 4, checksum),
         tabs, i + 1, first, WAdd(sum, checksum))

FixChecksums(tables, mem) ==
  LET h == FindTable(tables, kHeadTableTag) IN
  IF h = 0 THEN [ok |-> FALSE, mem |-> mem]
  ELSE IF tables[h].dst_length < kCheckSumAdjustmentOffset + 4
  THEN [ok |-> FALSE, mem |-> mem]
  ELSE
    LET adjustment_offset == tables[h].dst_offset + kCheckSumAdjustmentOffset
        t == StoreTableChecksums(StoreU32(mem, adjustment_offset, 0), tables,
                                 1, kSfntHeaderSize, WZero)
        file_checksum ==
          WAdd(t.sum, ComputeULongSum(t.mem, 0,
                        kSfntHeaderSize + kSfntEntrySize * Len(tables)))
    IN [ok |-> TRUE,
        mem |-> StoreW32(t.mem, adjustment_offset,
                         WSub(kChecksumMagic, file_checksum))]

\* FindTable(ttc_font, tables, tag): an index into the font's list, or 0
FindFontTable(s, indices, tag) ==
  IF \E k \in 1 .. Len(indices) : TableAt(s, indices[k]).tag = tag
  THEN MinOf({k \in 1 .. Len(indices) : TableAt(s, indices[k]).tag = tag})
  ELSE 0

RECURSIVE FixCollectionFonts(_, _, _, _)
FixCollectionFonts(s, mem, k, offset) ==
  IF k > Len(s.ttc_fonts) THEN [ok |-> TRUE, mem |-> mem]
  ELSE
    LET ttc_font == s.ttc_fonts[k]
        indices == ttc_font.table_indices
        h == FindFontTable(s, indices, kHeadTableTag) IN
    IF h = 0 THEN [ok |-> FALSE, mem |-> mem]
    ELSE
      LET head_table == TableAt(s, indices[h]) IN
      IF head_table.dst_length < kCheckSumAdjustmentOffset + 4
      THEN [ok |-> FALSE, mem |-> mem]
      ELSE
        LET adjustment_offset ==
              head_table.dst_offset + kCheckSumAdjustmentOffset
            t == StoreTableChecksums(StoreU32(mem, adjustment_offset, 0),
                   [j \in 1 .. Len(indices) |-> TableAt(s, indices[j])],
                   1, offset + 12, WZero)
            header_size == kSfntHeaderSize + kSfntEntrySize * Len(indices)
            file_checksum ==
              WAdd(t.sum, ComputeULongSum(t.mem, ttc_font.dst_offset,
                                          header_size))
        IN FixCollectionFonts(s,
             StoreW32(t.mem, adjustment_offset,
                      WSub(kChecksumMagic, file_checksum)),
             k + 1, offset + 12 + 16 * Len(indices))

FixCollectionChecksums(s, mem) ==
  FixCollectionFonts(s, mem, 1,
    CollectionHeaderSize(s.header_version, Len(s.ttc_fonts)))

DecChecksums(s) ==
  LET r == IF s.header_version # 0 THEN FixCollectionChecksums(s, s.result)
           ELSE FixChecksums(s.tables, s.result) IN
  [s EXCEPT !.pc = "done", !.result = r.mem,
            !.ret = IF r.ok THEN "true" ELSE "false"]

----------------------------------------------------------------------------
(* Writing the headers and the tables of the rebuilt font *)

RECURSIVE MaxPow2(_, _)
MaxPow2(num_tables, p) ==
  IF Pow2(p + 1) <= num_tables THEN MaxPow2(num_tables, p + 1) ELSE p

OffsetTableBytes(flavor, num_tables) ==
  LET max_pow2 == MaxPow2(num_tables, 0)
      output_search_range == (Pow2(max_pow2) * 16) % 65536
  IN U32Bytes(flavor) \o U16Bytes(num_tables) \o U16Bytes(output_search_range)
     \o U16Bytes(max_pow2)
     \o U16Bytes(num_tables * 16 - output_search_range)

TableEntryBytes(table) ==
  U32Bytes(table.tag) \o U32Bytes(0) \o U32Bytes(table.dst_offset)
  \o U32Bytes(table.dst_length)

RECURSIVE ConcatAll(_)
ConcatAll(ss) == IF ss = <<>> THEN <<>> ELSE ss[1] \o ConcatAll(Tail(ss))

\* the offset tables of the fonts of a collection, from offset on
RECURSIVE StoreFontHeaders(_, _, _, _)
StoreFontHeaders(s, k, offset, offset_table) ==
  IF k > Len(s.ttc_fonts) THEN s
  ELSE
    LET indices == s.ttc_fonts[k].table_indices
        bytes == OffsetTableBytes(s.ttc_fonts[k].flavor, Len(indices))
                 \o ConcatAll([j \in 1 .. Len(indices) |->
                                 TableEntryBytes(TableAt(s, indices[j]))])
    IN StoreFontHeaders(
         [s EXCEPT !.ttc_fonts[k].dst_offset = offset,
                   !.result = PutSeq(StoreU32(@, offset_table, offset),
                                     offset, bytes)],
         k + 1, offset + Len(bytes), offset_table + 4)

\* ConvertWOFF2ToTTF, "Start building the font"
DecBuild(s) ==
  IF s.header_version # 0
  THEN
    LET n == Len(s.ttc_fonts)
        header == U32Bytes(s.flavor) \o U32Bytes(s.header_version)
                  \o U32Bytes(n) \o [k \in 1 .. 4 * n |-> 0]
                  \o (IF s.header_version = 131072
                      THEN [k \in 1 .. 12 |-> 0] ELSE <<>>)
    IN StoreFontHeaders(
         [s EXCEPT !.pc = "tables", !.result = PutSeq(@, 0, header)],
         1, Len(header), 12)
  ELSE
    [s EXCEPT !.pc = "tables",
              !.result = PutSeq(@, 0,
                 OffsetTableBytes(s.flavor, s.num_tables)
                 \o ConcatAll([k \in 1 .. s.num_tables |->
                                 TableEntryBytes(s.tables[k])]))]

\* Woff2Uncompress
Woff2UncompressAnySize(d, src_offset, src_size, dst_size) ==
  LET r == BrotliDecompressBuffer(d, src_offset, src_size, dst_size)
  IN [ok |-> r.ok, out |-> r.out]

Woff2Uncompress(d, src_offset, src_size, dst_size) ==
  LET r == BrotliDecompressBuffer(d, src_offset, src_size, dst_size)
  IN [ok |-> r.ok /\ r.out.len = dst_size, out |-> r.out]

\* the size of the stream that starts at table i: its transform_length and
\* those of the tables that continue it
RECURSIVE StreamSize(_, _)
StreamSize(tables, j) ==
  IF j > Len(tables) THEN 0
  ELSE IF BitAnd(tables[j].flags, kWoff2FlagsContinueStream) = 0 THEN 0
  ELSE tables[j].transform_length + StreamSize(tables, j + 1)

\* a NULL Table pointer
NullTable == [NewTable EXCEPT !.tag = -1]

ReconstructTransformedGlyf(tbuf, toff, tsize, glyf_table, loca_table, mem, dst_length) ==
  IF glyf_table = NullTable \/ loca_table = NullTable
  THEN [ok |-> FALSE, mem |-> mem]
  ELSE IF glyf_table.dst_offset + glyf_table.dst_length > dst_length
  THEN [ok |-> FALSE, mem |-> mem]
  ELSE IF loca_table.dst_offset + loca_table.dst_length > dst_length
  THEN [ok |-> FALSE, mem |-> mem]
  ELSE ReconstructGlyf(tbuf, toff, tsize, mem,
                       glyf_table.dst_offset, glyf_table.dst_length,
                       loca_table.dst_offset, loca_table.dst_length)

ReconstructTransformed(tables, tag, tbuf, toff, tsize, mem, dst_length) ==
  IF tag = kGlyfTableTag
  THEN LET g == FindTable(tables, tag)
           l == FindTable(tables, kLocaTableTag)
       IN ReconstructTransformedGlyf(tbuf, toff, tsize,
            IF g = 0 THEN NullTable ELSE tables[g],
            IF l = 0 THEN NullTable ELSE tables[l], mem, dst_length)
  ELSE IF tag = kLocaTableTag
  THEN [ok |-> FindTable(tables, kGlyfTableTag) # 0, mem |-> mem]
  ELSE [ok |-> FALSE, mem |-> mem]

\* the table loop of ConvertWOFF2ToTTF: one table, once its stream is there
StoreTable(s, table, buf, toff) ==
  IF BitAnd(table.flags, kWoff2FlagsTransform) = 0
  THEN IF table.transform_length # table.dst_length
       THEN [ok |-> FALSE, mem |-> s.result]
       ELSE IF table.dst_offset + table.transform_length > s.result_length
       THEN [ok |-> FALSE, mem |-> s.result]
       ELSE [ok |-> TRUE,
             mem |-> CopyMem(s.result, table.dst_offset, buf, toff,
                             table.transform_length)]
  ELSE IF s.header_version # 0
  THEN IF table.tag = kGlyfTableTag
       THEN ReconstructTransformedGlyf(buf, toff, table.transform_length,
              table,
              IF s.i \in DOMAIN s.loca_by_glyf
              THEN TableAt(s, s.loca_by_glyf[s.i]) ELSE NullTable,
              s.result, s.result_length)
       ELSE [ok |-> table.tag = kLocaTableTag, mem |-> s.result]
  ELSE ReconstructTransformed(s.tables, table.tag, buf, toff,
                              table.transform_length, s.result,
                              s.result_length)

\* the uncompressed stream that the table at s.i reads: the one at hand when
\* the table continues it, else a fresh one
StreamOf(s, d, table) ==
  IF BitAnd(table.flags, kWoff2FlagsContinueStream) # 0
  THEN [ok |-> s.continue_valid, buf |-> s.uncompressed_buf,
        toff |-> s.transform_off]
  ELSE
    Bind(table.transform_length + StreamSize(s.tables, s.i + 2),
         LAMBDA total_size :
    Bind(Woff2Uncompress(d, table.src_offset, s.compressed_length, total_size),
         LAMBDA u :
      [ok |-> u.ok,
       buf |-> CopyMem(MkMem(total_size, 0), 0, u.out, 0,
                       Min(u.out.len, total_size)),
       toff |-> 0]))

\* ConvertWOFF2ToTTF, one turn of the loop over the tables
DecTable(s, d) ==
  Bind(s.tables[s.i + 1], LAMBDA table :
  Bind(StreamOf(s, d, table), LAMBDA u :
    IF ~u.ok THEN DecFail(s)
    ELSE
      Bind(StoreTable(s, table, u.buf, u.toff), LAMBDA r :
        IF ~r.ok THEN [DecFail(s) EXCEPT !.result = r.mem]
        ELSE IF u.toff + table.transform_length > u.buf.len
        THEN [DecFail(s) EXCEPT !.result = r.mem]
        ELSE [s EXCEPT !.result = r.mem, !.uncompressed_buf = u.buf,
                       !.continue_valid = TRUE,
                       !.transform_off = u.toff + table.transform_length,
                       !.i = s.i + 1,
                       !.pc = IF s.i + 1 >= s.num_tables THEN "checksums"
                              ELSE "tables"])))

DecInit(result_length, fill, ghost) ==
  [pc |-> "header", ret |-> "none", result |-> MkMem(result_length, fill),
   result_length |-> result_length, offset |-> 0, flavor |-> 0,
   num_tables |-> 0, compressed_length |-> 0, meta_offset |-> 0,
   meta_length |-> 0, priv_offset |-> 0, priv_length |-> 0, tables |-> <<>>,
   header_version |-> 0, ttc_fonts |-> <<>>, loca_by_glyf |-> NoCells,
   i |-> 0, continue_valid |-> FALSE, uncompressed_buf |-> MkMem(0, 0),
   transform_off |-> 0, ghost |-> ghost]

DecStep(s, d) ==
  CASE s.pc = "header" -> ReadHeader(s, d)
    [] s.pc = "directory" -> DecDirectory(s, d)
    [] s.pc = "collection" -> DecCollection(s, d)
    [] s.pc = "offsets" -> DecOffsets(s, d)
    [] s.pc = "build" -> DecBuild(s)
    [] s.pc = "tables" -> DecTable(s, d)
    [] s.pc = "checksums" -> DecChecksums(s)
    [] OTHER -> s

RECURSIVE DecRun(_, _)
DecRun(s, d) == IF s.pc = "done" THEN s ELSE DecRun(DecStep(s, d), d)

\* ConvertWOFF2ToTTF(result, result_length, data, length), called with a
\* result buffer of result_length bytes that all hold fill
ConvertWOFF2ToTTF(result_length, fill, d, ghost) ==
  DecRun(DecInit(result_length, fill, ghost), d)

ComputeWOFF2FinalSize(d) == IF 20 > d.len THEN 0 ELSE U32At(d, 16)

----------------------------------------------------------------------------
(* WOFF2 files given to the decoder: well-formed files and files with one  *)
(* defect each                                                             *)

MemCat(a, b) == CopyMem([a EXCEPT !.len = a.len + b.len], a.len, b, 0, b.len)

RECURSIVE MemCatAll(_)
MemCatAll(ms) ==
  IF ms = <<>> THEN MkMem(0, 0) ELSE MemCat(ms[1], MemCatAll(Tail(ms)))

\* one directory entry, as StoreTableEntry of the encoder writes it
DirEntryBytes(t) ==
  LET flag_byte == KnownTableIndex(t.tag)
  IN <<flag_byte>> \o (IF flag_byte = 63 THEN U32Bytes(t.tag) ELSE <<>>)
     \o StoreBase128(t.dst_length)
     \o (IF t.tag = kGlyfTableTag \/ t.tag = kLocaTableTag
         THEN StoreBase128(t.transform_length) ELSE <<>>)

Store255UShort(v) ==
  IF v < 253 THEN <<v>>
  ELSE IF v < 506 THEN <<255, v - 253>>
  ELSE IF v < 762 THEN <<254, v - 506>>
  ELSE <<253>> \o U16Bytes(v)

CollectionBytes(coll) ==
  IF coll.version = 0 THEN <<>>
  ELSE U32Bytes(coll.version) \o Store255UShort(Len(coll.fonts))
       \o ConcatAll([k \in 1 .. Len(coll.fonts) |->
            Store255UShort(Len(coll.fonts[k].indices))
            \o U32Bytes(coll.fonts[k].flavor)
            \o ConcatAll([j \in 1 .. Len(coll.fonts[k].indices) |->
                            Store255UShort(coll.fonts[k].indices[j])])])

\* the size of the sfnt that a well-formed file w decodes to
SfntSizeOf(w) ==
  (IF w.coll.version = 0
   THEN kSfntHeaderSize + kSfntEntrySize * Len(w.tabs)
   ELSE CollectionHeaderSize(w.coll.version, Len(w.coll.fonts))
        + SumSeq([k \in 1 .. Len(w.coll.fonts) |->
                    kSfntHeaderSize
                    + kSfntEntrySize * Len(w.coll.fonts[k].indices)]))
  + SumSeq([k \in 1 .. Len(w.tabs) |-> Round4(w.tabs[k].dst_length)])

\* the bytes of the file described by w
BuildWoff2(w) ==
  LET dir == ConcatAll([k \in 1 .. Len(w.tabs) |-> DirEntryBytes(w.tabs[k])])
             \o CollectionBytes(w.coll)
      off == kWoff2HeaderSize + Len(dir)
      length == Round4(off + w.stream.len)
      header == U32Bytes(w.signature) \o U32Bytes(w.flavor)
                \o U32Bytes(length + w.length_delta)
                \o U16Bytes(w.num_tables) \o U16Bytes(0)
                \o U32Bytes(SfntSizeOf(w) + w.sfnt_delta)
                \o U32Bytes(w.stream.len) \o U16Bytes(1) \o U16Bytes(0)
                \o [k \in 1 .. 20 |-> 0]
      file == CopyMem(PutSeq(MkMem(length, 0), 0, header \o dir), off,
                      w.stream, 0, w.stream.len)
  IN SliceMem(file, 0, length - w.trunc)

HeadBody == FromSeq(<<0, 1, 0, 0, 0, 1, 0, 0, 17, 34, 51, 68>>)

CffBody == FromSeq(<<1, 0, 4, 1, 9>>)

\* a transformed glyf table without glyphs
GlyfEmptyBody == FromSeq([k \in 1 .. 36 |-> 0])

\* a transformed glyf table of a simple glyph of one contour and two
\* points, followed by an empty glyph
GlyfTwoBody ==
  FromSeq(<<0, 0, 0, 0, 0, 2, 0, 0>>
          \o U32Bytes(4) \o U32Bytes(1) \o U32Bytes(2) \o U32Bytes(3)
          \o U32Bytes(0) \o U32Bytes(4) \o U32Bytes(0)
          \o <<0, 1, 0, 0>> \o <<2>> \o <<1, 11>> \o <<5, 7, 0>>
          \o <<0, 0, 0, 0>>)

Tab(tag, dst_length, body) ==
  [tag |-> tag, dst_length |-> dst_length, transform_length |-> body.len,
   body |-> body]

NoColl == [version |-> 0, fonts |-> <<>>]

WellFormed(flavor, tabs, coll) ==
  [signature |-> kWoff2Signature, flavor |-> flavor, length_delta |-> 0,
   num_tables |-> Len(tabs), sfnt_delta |-> 0, tabs |-> tabs, coll |-> coll,
   stream |-> BrotliCompress(
                MemCatAll([k \in 1 .. Len(tabs) |-> tabs[k].body]), 0),
   trunc |-> 0]

kOttoFlavor == Tag4(79, 84, 84, 79)

BaseCff ==
  WellFormed(kOttoFlavor,
    <<Tab(kCffTableTag, 5, CffBody), Tab(kHeadTableTag, 12, HeadBody)>>,
    NoColl)

BaseGlyfEmpty ==
  WellFormed(kTrueTypeFlavor,
    <<Tab(kGlyfTableTag, 0, GlyfEmptyBody), Tab(kHeadTableTag, 12, HeadBody),
      Tab(kLocaTableTag, 2, MkMem(0, 0))>>, NoColl)

BaseGlyfTwo ==
  WellFormed(kTrueTypeFlavor,
    <<Tab(kGlyfTableTag, 20, GlyfTwoBody), Tab(kHeadTableTag, 12, HeadBody),
      Tab(kLocaTableTag, 6, MkMem(0, 0))>>, NoColl)

BaseCollection ==
  WellFormed(kTtcFontFlavor,
    <<Tab(kGlyfTableTag, 20, GlyfTwoBody), Tab(kHeadTableTag, 12, HeadBody),
      Tab(kLocaTableTag, 6, MkMem(0, 0)), Tab(kCffTableTag, 5, CffBody)>>,
    [version |-> 65536,
     fonts |-> <<[flavor |-> kTrueTypeFlavor, indices |-> <<0, 1, 2>>],
                 [flavor |-> kOttoFlavor, indices |-> <<1, 3>>]>>])

BaseGlyfOnly ==
  WellFormed(kTrueTypeFlavor,
    <<Tab(kGlyfTableTag, 20, GlyfTwoBody), Tab(kHeadTableTag, 12, HeadBody)>>,
    NoColl)

BaseLocaOnly ==
  WellFormed(kTrueTypeFlavor,
    <<Tab(kHeadTableTag, 12, HeadBody), Tab(kLocaTableTag, 6, MkMem(0, 0))>>,
    NoColl)

\* a loca entry that declares four transformed bytes, and has them
BaseLocaLength ==
  WellFormed(kTrueTypeFlavor,
    <<Tab(kGlyfTableTag, 20, GlyfTwoBody), Tab(kHeadTableTag, 12, HeadBody),
      Tab(kLocaTableTag, 6, FromSeq(<<0, 0, 0, 0>>))>>, NoColl)

\* the first entry of the directory is not the first table by tag
BaseUnsorted ==
  WellFormed(kOttoFlavor,
    <<Tab(kHeadTableTag, 12, HeadBody), Tab(kCffTableTag, 5, CffBody),
      Tab(kDsigTableTag, 3, FromSeq(<<7, 7, 7>>))>>, NoColl)

\* the first entry of the directory is the first table by tag, the others
\* are not in the order of their tags
BaseUnsortedTail ==
  WellFormed(kOttoFlavor,
    <<Tab(kCffTableTag, 5, CffBody), Tab(kHeadTableTag, 12, HeadBody),
      Tab(kDsigTableTag, 3, FromSeq(<<7, 7, 7>>))>>, NoColl)

\* a collection of two fonts that share no table
BaseOwnHeads ==
  WellFormed(kTtcFontFlavor,
    <<Tab(kCffTableTag, 5, CffBody), Tab(kHeadTableTag, 12, HeadBody),
      Tab(kCffTableTag, 5, CffBody), Tab(kHeadTableTag, 12, HeadBody)>>,
    [version |-> 65536,
     fonts |-> <<[flavor |-> kOttoFlavor, indices |-> <<0, 1>>],
                 [flavor |-> kOttoFlavor, indices |-> <<2, 3>>]>>])

CollTabs ==
  <<Tab(kGlyfTableTag, 0, GlyfEmptyBody), Tab(kHeadTableTag, 12, HeadBody),
    Tab(kLocaTableTag, 2, MkMem(0, 0))>>

BaseFontNoLoca ==
  WellFormed(kTtcFontFlavor, CollTabs,
    [version |-> 131072,
     fonts |-> <<[flavor |-> kTrueTypeFlavor, indices |-> <<0, 1>>]>>])

BaseFontNoGlyf ==
  WellFormed(kTtcFontFlavor, CollTabs,
    [version |-> 65536,
     fonts |-> <<[flavor |-> kTrueTypeFlavor, indices |-> <<0, 1, 2>>],
                 [flavor |-> kTrueTypeFlavor, indices |-> <<1, 2>>]>>])

\* a font that lists glyf, head and an index past the end of the directory
BaseFontPastEnd ==
  WellFormed(kTtcFontFlavor, SubSeq(CollTabs, 1, 2),
    [version |-> 65536,
     fonts |-> <<[flavor |-> kTrueTypeFlavor, indices |-> <<0, 1, 2>>]>>])

\* a collection whose directory has a loca that no font lists
BaseUnlistedLoca ==
  WellFormed(kTtcFontFlavor, SubSeq(CollTabs, 2, 3),
    [version |-> 65536,
     fonts |-> <<[flavor |-> kOttoFlavor, indices |-> <<0>>]>>])

\* a CFF table of one byte more than 30 MiB
BigBody == PutSeq(MkMem(kMaxUncompressedSum + 1, 0), 0, <<1, 0, 4, 1>>)

BaseBig ==
  WellFormed(kOttoFlavor,
    <<Tab(kCffTableTag, kMaxUncompressedSum + 1, BigBody),
      Tab(kHeadTableTag, 12, HeadBody)>>, NoColl)

Bases ==
  {BaseCff, BaseGlyfEmpty, BaseGlyfTwo, BaseCollection, BaseGlyfOnly,
   BaseLocaOnly, BaseLocaLength, BaseUnsorted, BaseFontNoLoca, BaseFontNoGlyf,
   BaseFontPastEnd, BaseUnlistedLoca, BaseBig, BaseUnsortedTail,
   BaseOwnHeads}

Payload(w) == MemCatAll([k \in 1 .. Len(w.tabs) |-> w.tabs[k].body])

\* the defects
Defects(w) ==
  {w,
   [w EXCEPT !.signature = kWoff2Signature + 1],
   [w EXCEPT !.length_delta = 1],
   [w EXCEPT !.length_delta = -1],
   [w EXCEPT !.trunc = 4],
   [w EXCEPT !.num_tables = 0],
   [w EXCEPT !.sfnt_delta = 4],
   [w EXCEPT !.stream = BrotliCompress(MemCat(Payload(w), FromSeq(<<7>>)), 0)],
   [w EXCEPT !.stream =
      BrotliCompress(SliceMem(Payload(w), 0, Payload(w).len - 1), 0)],
   [w EXCEPT !.stream = PutSeq(w.stream, 0, <<9>>)],
   [w EXCEPT !.stream = BrotliCompress(Payload(w), 5)]}

\* the file of 32 bytes with a good signature and no tables
File32 ==
  [WellFormed(kOttoFlavor, <<>>, NoColl) EXCEPT !.length_delta = -20,
                                                 !.trunc = 20]

DecoderFiles ==
  {BuildWoff2(w) : w \in (UNION {Defects(b) : b \in Bases}) \cup {File32}}

\* what an index past the end of the table vector may read
Ghosts ==
  {NewTable,
   [NewTable EXCEPT !.tag = kLocaTableTag, !.dst_length = 4],
   [NewTable EXCEPT !.tag = kGlyfTableTag, !.dst_length = 4]}

\* what a fresh buffer may hold; a large one comes from fresh pages
kLargeAllocation == 131072

Fills(size) == IF size >= kLargeAllocation THEN {0} ELSE {0, 170}

----------------------------------------------------------------------------
(* The decompressor: main of woff2.cc around ConvertWOFF2ToTTF *)

Idle(fill, ghost) == [DecInit(0, fill, ghost) EXCEPT !.pc = "idle"]

Init ==
  /\ data \in DecoderFiles
  /\ \E fill \in Fills(ComputeWOFF2FinalSize(data)), ghost \in Ghosts :
       dec = Idle(fill, ghost)
  /\ out = MkMem(0, 0)
  /\ stage = "start"
  /\ ttf = 0 /\ meta = 0 /\ enc1 = 0 /\ norm1 = 0 /\ dec1 = 0 /\ enc2 = 0
  /\ cin = 0 /\ cout = 0

MainStart ==
  /\ stage = "start"
  /\ LET decompressed_size == ComputeWOFF2FinalSize(data) IN
     IF decompressed_size = 0
     THEN stage' = "exit" /\ dec' = dec
     ELSE /\ stage' = "decode"
          /\ dec' = DecInit(decompressed_size, dec.result.fill, dec.ghost)
  /\ UNCHANGED <<data, out, rtvars>>

Decoding(pc) == stage = "decode" /\ dec.pc = pc

StepHeader ==
  /\ Decoding("header")
  /\ dec' = ReadHeader(dec, data)
  /\ UNCHANGED <<data, out, stage, rtvars>>

StepDirectory ==
  /\ Decoding("directory")
  /\ dec' = DecDirectory(dec, data)
  /\ UNCHANGED <<data, out, stage, rtvars>>

StepCollection ==
  /\ Decoding("collection")
  /\ dec' = DecCollection(dec, data)
  /\ UNCHANGED <<data, out, stage, rtvars>>

StepOffsets ==
  /\ Decoding("offsets")
  /\ dec' = DecOffsets(dec, data)
  /\ UNCHANGED <<data, out, stage, rtvars>>

StepBuild ==
  /\ Decoding("build")
  /\ dec' = DecBuild(dec)
  /\ UNCHANGED <<data, out, stage, rtvars>>

StepTable ==
  /\ Decoding("tables")
  /\ dec' = DecTable(dec, data)
  /\ UNCHANGED <<data, out, stage, rtvars>>

StepChecksums ==
  /\ Decoding("checksums")
  /\ dec' = DecChecksums(dec)
  /\ UNCHANGED <<data, out, stage, rtvars>>

\* fwrite(buf, 1, decompressed_size, stdout), whatever the result
MainWrite ==
  /\ stage = "decode"
  /\ dec.pc = "done"
  /\ out' = dec.result
  /\ stage' = "exit"
  /\ UNCHANGED <<data, dec, rtvars>>

Next ==
  \/ MainStart
  \/ StepHeader
  \/ StepDirectory
  \/ StepCollection
  \/ StepOffsets
  \/ StepBuild
  \/ StepTable
  \/ StepChecksums
  \/ MainWrite

Spec == Init /\ [][Next]_vars

----------------------------------------------------------------------------
(* Properties of the decompressor *)

Returned(ret) == dec.pc = "done" /\ dec.ret = ret

Finished == dec.pc = "done"

\* what the caller's buffer held before the call
BufferBefore == MkMem(dec.result_length, dec.result.fill)

\* C4, as the specification states it: when the decode fails, the caller's
\* buffer holds what it held before the call and the command line tool has
\* written no byte
C4_NoPartialOutput ==
  Returned("false") => SameBytes(dec.result, BufferBefore) /\ out.len = 0

HeaderBad(d) ==
  \/ d.len < 4 \/ U32At(d, 0) # kWoff2Signature
  \/ d.len < 12 \/ U32At(d, 8) # d.len
  \/ d.len < 14 \/ U16At(d, 12) = 0

\* C5: a file with a wrong signature, with a length field that is not its
\* number of bytes, or with num_tables = 0 is rejected
C5_HeaderRejected == (Finished /\ HeaderBad(data)) => dec.ret = "false"

\* the file of 32 bytes with a good signature, a true length field and
\* num_tables = 0 has been rejected
C5_Witness ==
  /\ Returned("false")
  /\ U32At(data, 0) = kWoff2Signature
  /\ U32At(data, 8) = data.len
  /\ U16At(data, 12) = 0
  /\ data.len = 32

DstLengths(tables) == [k \in 1 .. Len(tables) |-> tables[k].dst_length]

TransformLengths(tables) ==
  [k \in 1 .. Len(tables) |-> tables[k].transform_length]

\* C6, as the specification states it: a directory whose uncompressed sizes
\* sum to more than 30 MiB is rejected
C6_SumRejected ==
  Returned("true") => SumSeq(DstLengths(dec.tables)) <= kMaxUncompressedSum

\* the stream of the file, decompressed without a limit on its size
StreamOfFile ==
  BrotliDecompressBuffer(data, dec.tables[1].src_offset, dec.compressed_length,
                         2 * kMaxUncompressedSum)

\* C7: a decode succeeds only if the Brotli stream decompresses, and to
\* exactly the sum of the transform lengths of the directory
C7_StreamSize ==
  Returned("true") =>
    /\ StreamOfFile.ok
    /\ StreamOfFile.out.len = SumSeq(TransformLengths(dec.tables))

\* a stream that decompresses to another size has been rejected, after the
\* headers of the font were built
C7_Witness ==
  /\ Returned("false")
  /\ dec.tables # <<>>
  /\ dec.tables[1].src_offset > 0
  /\ ~SameBytes(dec.result, BufferBefore)
  /\ StreamOfFile.ok
  /\ StreamOfFile.out.len # SumSeq(TransformLengths(dec.tables))

\* the entries of a table directory as the format lays them out, as far as
\* they can be read
RECURSIVE DirectoryEntries(_, _, _)
DirectoryEntries(d, off, n) ==
  IF n = 0 \/ off >= d.len THEN <<>>
  ELSE
    LET known == ByteAt(d, off) % 64
        tag == IF known = 63 THEN U32At(d, off + 1) ELSE kKnownTags[known + 1]
        dl == ReadBase128(d, IF known = 63 THEN off + 5 ELSE off + 1)
        tl == IF tag \in {kGlyfTableTag, kLocaTableTag}
              THEN ReadBase128(d, dl.off) ELSE dl IN
    IF ~dl.ok \/ ~tl.ok THEN <<>>
    ELSE <<[tag |-> tag, dst_length |-> dl.value,
            transform_length |-> tl.value]>>
         \o DirectoryEntries(d, tl.off, n - 1)

LocaWithLength(d) ==
  \E k \in DOMAIN DirectoryEntries(d, kWoff2HeaderSize, U16At(d, 12)) :
    LET e == DirectoryEntries(d, kWoff2HeaderSize, U16At(d, 12))[k] IN
    e.tag = kLocaTableTag /\ e.transform_length # 0

\* C8: a directory with a loca entry of non-zero transform_length is not
\* accepted, and the decode fails
C8_LocaLength ==
  (Finished /\ LocaWithLength(data)) =>
    dec.ret = "false" /\ dec.tables = <<>>

\* such a directory has been rejected, in a file whose header is good
C8_Witness ==
  Returned("false") /\ ~HeaderBad(data) /\ LocaWithLength(data)

Lists(tables, indices, tag) ==
  \E k \in DOMAIN indices :
    indices[k] < Len(tables) /\ tables[indices[k] + 1].tag = tag

HasTag(tables, tag) == \E k \in DOMAIN tables : tables[k].tag = tag

\* C9, as the specification states it for the decoder: a decode succeeds only
\* if the directory, and in a collection the table list of every font, has
\* glyf and loca together or neither
C9_GlyfLocaTogether ==
  Returned("true") =>
    IF dec.flavor = kTtcFontFlavor
    THEN \A f \in DOMAIN dec.ttc_fonts :
           Lists(dec.tables, dec.ttc_fonts[f].table_indices, kGlyfTableTag)
           <=> Lists(dec.tables, dec.ttc_fonts[f].table_indices, kLocaTableTag)
    ELSE HasTag(dec.tables, kGlyfTableTag) <=> HasTag(dec.tables, kLocaTableTag)

\* a font of the collection directory lists an index that no table has
IndexPastTables ==
  /\ stage \in {"decode", "exit"}
  /\ dec.flavor = kTtcFontFlavor
  /\ \E f \in DOMAIN dec.ttc_fonts :
       \E k \in DOMAIN dec.ttc_fonts[f].table_indices :
         dec.ttc_fonts[f].table_indices[k] >= Len(dec.tables)

\* C28: the decoder indexes the table list with an index of the collection
\* directory only if the index is smaller than num_tables: a directory with
\* an index of num_tables or more makes the decode fail, and no later stage
\* works on the table index vector of such a font.
C28_TableIndicesInRange == IndexPastTables => Returned("false")

\* the decode of a collection with an index past the tables has returned true
C28_IndexPastTablesAccepted == IndexPastTables /\ Returned("true")

----------------------------------------------------------------------------
(* The font model: ReadFont, WriteFont and the normalizer *)

NoTables == [t \in {} |-> 0]

NoFont == [ok |-> FALSE, flavor |-> 0, num_tables |-> 0, tables |-> NoTables]

HasTable(font, tag) == tag \in DOMAIN font.tables

\* tag ^ 0x80808080, the key of the transformed version of a table: the
\* tags of the tables themselves stay below 2^31, and a key with the high
\* bits set is written as the negated tag
TransformedTag(tag) == 0 - tag

IsTransformedTag(tag) == tag < 0

\* the tags of the table map, in the order in which the map is walked
TagsOf(font) ==
  SortedSeqOf({t \in DOMAIN font.tables : ~IsTransformedTag(t)})
  \o [k \in 1 .. Cardinality({t \in DOMAIN font.tables : IsTransformedTag(t)})
        |-> TransformedTag(
              SortedSeqOf({TransformedTag(t) : t \in
                 {u \in DOMAIN font.tables : IsTransformedTag(u)}})[k])]

\* ReadFont, the loop over the table records; a table keeps a pointer into
\* the input: data is the input and at the offset of the table in it
RECURSIVE ReadFontTables(_, _, _, _, _)
ReadFontTables(d, i, num_tables, tables, intervals) ==
  IF i >= num_tables
  THEN [ok |-> TRUE, tables |-> tables, intervals |-> intervals]
  ELSE IF kSfntHeaderSize + kSfntEntrySize * (i + 1) > d.len
  THEN [ok |-> FALSE, tables |-> tables, intervals |-> intervals]
  ELSE
    LET e == kSfntHeaderSize + kSfntEntrySize * i
        tag == U32At(d, e)
        offset == U32At(d, e + 8)
        length == U32At(d, e + 12) IN
    IF offset % 4 # 0 \/ length > d.len \/ d.len - length < offset
    THEN [ok |-> FALSE, tables |-> tables, intervals |-> intervals]
    ELSE IF tag \in DOMAIN tables
    THEN [ok |-> FALSE, tables |-> tables, intervals |-> intervals]
    ELSE ReadFontTables(d, i + 1, num_tables,
           MapPut(tables, tag,
             [tag |-> tag, checksum |-> WOfBytes(BytesAt(d, e + 4, 4)),
              offset |-> offset, length |-> length, data |-> d,
              at |-> offset]),
           MapPut(intervals, offset, length))

\* ReadFont, the check that the tables do not overlap
RECURSIVE IntervalsOk(_, _, _)
IntervalsOk(intervals, keys, last_offset) ==
  IF keys = <<>> THEN TRUE
  ELSE IF keys[1] < last_offset THEN FALSE
  ELSE IntervalsOk(intervals, Tail(keys), keys[1] + intervals[keys[1]])

ReadFont(d) ==
  IF d.len < kSfntHeaderSize THEN NoFont
  ELSE
    Bind(ReadFontTables(d, 0, U16At(d, 4), NoTables, NoTables), LAMBDA r :
      IF ~r.ok THEN NoFont
      ELSE IF ~IntervalsOk(r.intervals, SortedSeqOf(DOMAIN r.intervals),
                           kSfntHeaderSize + kSfntEntrySize * U16At(d, 4))
      THEN NoFont
      ELSE [ok |-> TRUE, flavor |-> U32At(d, 0), num_tables |-> U16At(d, 4),
            tables |-> r.tables])

PaddingSize(length) == (4 - (length % 4)) % 4

FontFileSize(font) ==
  MaxOf({kSfntHeaderSize + kSfntEntrySize * font.num_tables}
        \cup {PaddingSize(font.tables[t].length) + font.tables[t].offset
              + font.tables[t].length : t \in DOMAIN font.tables})

Log2Floor(n) == MaxPow2(n, 0)

\* the three derived fields of the sfnt header, as WriteFont and
\* ComputeHeaderChecksum compute them
SearchRange(num_tables) ==
  IF Log2Floor(num_tables) # 0
  THEN Pow2(Log2Floor(num_tables) + 4) % 65536 ELSE 0

RangeShift(num_tables) ==
  (num_tables * 16 - SearchRange(num_tables) + 65536) % 65536

\* WriteFont, the loop over the tables
RECURSIVE WriteFontTables(_, _, _, _, _)
WriteFontTables(font, tags, offset, dst, dst_size) ==
  IF tags = <<>> THEN [ok |-> TRUE, mem |-> dst]
  ELSE
    Bind(font.tables[tags[1]], LAMBDA table :
    Bind(PutSeq(dst, offset,
           U32Bytes(table.tag) \o WBytes(table.checksum)
           \o U32Bytes(table.offset) \o U32Bytes(table.length)),
         LAMBDA dst1 :
      IF dst_size < table.offset + table.length
      THEN [ok |-> FALSE, mem |-> dst1]
      ELSE
        Bind(CopyMem(dst1, table.offset, table.data, table.at, table.length),
             LAMBDA dst2 :
          IF dst_size < table.offset + table.length
                        + PaddingSize(table.length)
          THEN [ok |-> FALSE, mem |-> dst2]
          ELSE WriteFontTables(font, Tail(tags), offset + kSfntEntrySize,
                 SetMem(dst2, table.offset + table.length, 0,
                        PaddingSize(table.length)),
                 dst_size))))

WriteFont(font, dst, dst_size) ==
  IF dst_size < kSfntHeaderSize + kSfntEntrySize * font.num_tables
  THEN [ok |-> FALSE, mem |-> dst]
  ELSE WriteFontTables(font, TagsOf(font), kSfntHeaderSize,
         PutSeq(dst, 0,
           U32Bytes(font.flavor) \o U16Bytes(font.num_tables)
           \o U16Bytes(SearchRange(font.num_tables))
           \o U16Bytes(Log2Floor(font.num_tables))
           \o U16Bytes(RangeShift(font.num_tables))),
         dst_size)

RemoveDigitalSignature(font) ==
  IF HasTable(font, kDsigTableTag)
  THEN [font EXCEPT
          !.tables = [t \in (DOMAIN font.tables) \ {kDsigTableTag} |->
                        font.tables[t]],
          !.num_tables = Cardinality((DOMAIN font.tables) \ {kDsigTableTag})]
  ELSE font

\* MakeEditableBuffer: the table gets a copy of its bytes, padding included
MakeEditableBuffer(font, tableTag) ==
  IF ~HasTable(font, tableTag) THEN [font EXCEPT !.ok = FALSE]
  ELSE
    LET table == font.tables[tableTag] IN
    [font EXCEPT !.tables[tableTag].data =
                    SliceMem(table.data, table.at, Round4(table.length)),
                 !.tables[tableTag].at = 0]

S16(v) == IF v >= 32768 THEN v - 65536 ELSE v

IndexFormat(font) ==
  IF ~HasTable(font, kHeadTableTag) THEN 0
  ELSE ByteAt(font.tables[kHeadTableTag].data,
              font.tables[kHeadTableTag].at + 51)

NumGlyphs(font) ==
  IF \/ ~HasTable(font, kHeadTableTag) \/ ~HasTable(font, kLocaTableTag)
     \/ font.tables[kHeadTableTag].length < 52
  THEN 0
  ELSE (font.tables[kLocaTableTag].length
          \div (IF IndexFormat(font) = 0 THEN 2 ELSE 4)) - 1

\* GetGlyphData: where the glyph lies in the glyf table, and its size
GetGlyphData(font, glyph_index) ==
  IF glyph_index < 0 THEN [ok |-> FALSE, at |-> 0, size |-> 0]
  ELSE IF \/ ~HasTable(font, kHeadTableTag) \/ ~HasTable(font, kLocaTableTag)
          \/ ~HasTable(font, kGlyfTableTag)
          \/ font.tables[kHeadTableTag].length < 52
  THEN [ok |-> FALSE, at |-> 0, size |-> 0]
  ELSE
    LET loca == font.tables[kLocaTableTag]
        glyf == font.tables[kGlyfTableTag]
    IN IF IndexFormat(font) = 0
       THEN IF 2 * glyph_index + 4 > loca.length
            THEN [ok |-> FALSE, at |-> 0, size |-> 0]
            ELSE LET offset1 == U16At(loca.data, loca.at + 2 * glyph_index)
                     offset2 == U16At(loca.data, loca.at + 2 * glyph_index + 2)
                 IN IF offset2 < offset1 \/ 2 * offset2 > glyf.length
                    THEN [ok |-> FALSE, at |-> 0, size |-> 0]
                    ELSE [ok |-> TRUE, at |-> 2 * offset1,
                          size |-> 2 * (offset2 - offset1)]
       ELSE IF 4 * glyph_index + 8 > loca.length
            THEN [ok |-> FALSE, at |-> 0, size |-> 0]
            ELSE LET offset1 == U32At(loca.data, loca.at + 4 * glyph_index)
                     offset2 == U32At(loca.data, loca.at + 4 * glyph_index + 4)
                 IN IF offset2 < offset1 \/ offset2 > glyf.length
                    THEN [ok |-> FALSE, at |-> 0, size |-> 0]
                    ELSE [ok |-> TRUE, at |-> offset1,
                          size |-> offset2 - offset1]

\* A glyph without outline and without bytes
EmptyGlyph ==
  [ok |-> TRUE, contours |-> <<>>, x_min |-> 0, y_min |-> 0, x_max |-> 0,
   y_max |-> 0, instructions |-> MkMem(0, 0)]

NoGlyph == [EmptyGlyph EXCEPT !.ok = FALSE]

kGlyfOnCurve == Pow2(0)
kGlyfXShort == Pow2(1)
kGlyfYShort == Pow2(2)
kGlyfRepeat == Pow2(3)
kGlyfThisXIsSame == Pow2(4)
kGlyfThisYIsSame == Pow2(5)

FlagSet(flag, mask) == (flag \div mask) % 2 = 1

\* The flags of n points from off on, runs unfolded
RECURSIVE ReadGlyphFlags(_, _, _, _, _)
ReadGlyphFlags(mem, off, end, n, flags) ==
  IF Len(flags) >= n
  THEN [ok |-> TRUE, flags |-> SubSeq(flags, 1, n), off |-> off]
  ELSE IF off + 1 > end THEN [ok |-> FALSE, flags |-> flags, off |-> off]
  ELSE LET flag == ByteAt(mem, off) IN
    IF FlagSet(flag, kGlyfRepeat)
    THEN IF off + 2 > end THEN [ok |-> FALSE, flags |-> flags, off |-> off]
         ELSE ReadGlyphFlags(mem, off + 2, end, n,
                flags \o [k \in 1 .. ByteAt(mem, off + 1) + 1 |-> flag])
    ELSE ReadGlyphFlags(mem, off + 1, end, n, Append(flags, flag))

\* The coordinates of one axis: short is the bit for a one-byte delta, same
\* the bit for its sign, or for a delta of zero
RECURSIVE ReadGlyphCoords(_, _, _, _, _, _, _, _)
ReadGlyphCoords(mem, off, end, flags, i, short, same, prev) ==
  IF i > Len(flags) THEN [ok |-> TRUE, vals |-> <<>>, off |-> off]
  ELSE
    LET flag == flags[i]
        n == IF FlagSet(flag, short) THEN 1
             ELSE IF FlagSet(flag, same) THEN 0 ELSE 2
    IN IF off + n > end THEN [ok |-> FALSE, vals |-> <<>>, off |-> off]
       ELSE
         LET delta == IF n = 1
                      THEN IF FlagSet(flag, same) THEN ByteAt(mem, off)
                           ELSE 0 - ByteAt(mem, off)
                      ELSE IF n = 0 THEN 0 ELSE S16(U16At(mem, off))
             rest == ReadGlyphCoords(mem, off + n, end, flags, i + 1, short,
                                     same, prev + delta)
         IN [ok |-> rest.ok, vals |-> <<prev + delta>> \o rest.vals,
             off |-> rest.off]

\* The points of the glyph cut into its contours
RECURSIVE SplitContours(_, _, _)
SplitContours(points, ends, first) ==
  IF ends = <<>> THEN <<>>
  ELSE <<SubSeq(points, first, ends[1] + 1)>>
         \o SplitContours(points, Tail(ends), ends[1] + 2)

\* ReadGlyph for the glyphs of this model: empty ones and simple ones
ReadGlyph(mem, at, size) ==
  IF size < kEndPtsOfContoursOffset THEN NoGlyph
  ELSE
    LET end == at + size
        num_contours == S16(U16At(mem, at))
        box == [EmptyGlyph EXCEPT !.x_min = S16(U16At(mem, at + 2)),
                                  !.y_min = S16(U16At(mem, at + 4)),
                                  !.x_max = S16(U16At(mem, at + 6)),
                                  !.y_max = S16(U16At(mem, at + 8))]
        ends_at == at + kEndPtsOfContoursOffset
    IN IF num_contours = 0 THEN box
       ELSE IF num_contours < 0 THEN NoGlyph
       ELSE IF ends_at + 2 * num_contours + 2 > end THEN NoGlyph
       ELSE
         LET ends == [k \in 1 .. num_contours |->
                        U16At(mem, ends_at + 2 * (k - 1))]
             instruction_size == U16At(mem, ends_at + 2 * num_contours)
             code_at == ends_at + 2 * num_contours + 2
         IN IF \E k \in 1 .. num_contours - 1 : ends[k + 1] <= ends[k]
            THEN NoGlyph
            ELSE IF code_at + instruction_size > end THEN NoGlyph
            ELSE
              Bind(ReadGlyphFlags(mem, code_at + instruction_size, end,
                                  ends[num_contours] + 1, <<>>), LAMBDA f :
                IF ~f.ok THEN NoGlyph
                ELSE
                  Bind(ReadGlyphCoords(mem, f.off, end, f.flags, 1,
                         kGlyfXShort, kGlyfThisXIsSame, 0), LAMBDA xs :
                    IF ~xs.ok THEN NoGlyph
                    ELSE
                      Bind(ReadGlyphCoords(mem, xs.off, end, f.flags, 1,
                             kGlyfYShort, kGlyfThisYIsSame, 0), LAMBDA ys :
                        IF ~ys.ok THEN NoGlyph
                        ELSE [box EXCEPT
                          !.contours = SplitContours(
                             [k \in 1 .. Len(f.flags) |->
                                [x |-> xs.vals[k], y |-> ys.vals[k],
                                 on_curve |-> FlagSet(f.flags[k],
                                                     kGlyfOnCurve)]],
                             ends, 1),
                          !.instructions =
                             SliceMem(mem, code_at, instruction_size)])))

PointsOf(glyph) == ConcatAll(glyph.contours)

NormalizeSimpleGlyphBoundingBox(glyph) ==
  IF glyph.contours = <<>> \/ glyph.contours[1] = <<>> THEN glyph
  ELSE LET points == PointsOf(glyph)
           xsv == {points[k].x : k \in 1 .. Len(points)}
           ysv == {points[k].y : k \in 1 .. Len(points)}
       IN [glyph EXCEPT !.x_min = MinOf(xsv), !.y_min = MinOf(ysv),
                        !.x_max = MaxOf(xsv), !.y_max = MaxOf(ysv)]

\* StoreGlyph for the glyphs of this model, at gb in mem: nothing at all for
\* a glyph without contours
StoreGlyph(glyph, mem, gb, dst_size) ==
  IF glyph.contours = <<>> THEN [ok |-> TRUE, mem |-> mem, glyph_size |-> 0]
  ELSE
    LET n_contours == Len(glyph.contours)
        sizes == [k \in 1 .. n_contours |-> Len(glyph.contours[k])]
        header_size == kEndPtsOfContoursOffset + 2 * n_contours + 2
        code_size == glyph.instructions.len
    IN IF dst_size < header_size + code_size
       THEN [ok |-> FALSE, mem |-> mem, glyph_size |-> 0]
       ELSE
         StorePoints(PointsOf(glyph), n_contours, code_size,
           CopyMem(
             PutSeq(mem, gb,
               U16Bytes(n_contours)
               \o U16Bytes(glyph.x_min + 65536) \o U16Bytes(glyph.y_min + 65536)
               \o U16Bytes(glyph.x_max + 65536) \o U16Bytes(glyph.y_max + 65536)
               \o EndPointBytes(EndPoints(sizes, -1))
               \o U16Bytes(code_size)),
             gb + header_size, glyph.instructions, 0, code_size),
           gb, dst_size)

\* StoreLoca of normalize.cc
NormalizeStoreLoca(index_fmt, value, offset, dst) ==
  IF index_fmt = 0 THEN Store16(dst, offset, (value \div 2) % 65536)
  ELSE StoreU32(dst, offset, value)

LocaEntrySize(index_fmt) == IF index_fmt = 0 THEN 2 ELSE 4

\* WriteNormalizedLoca, the loop over the glyphs: glyf_dst and loca_dst are
\* the buffers of the two tables, which the tables do not point to yet
RECURSIVE WriteNormalizedGlyphs(_, _, _, _, _, _, _)
WriteNormalizedGlyphs(font, index_fmt, num_glyphs, i, glyf_dst, loca_dst, glyf_offset) ==
  IF i >= num_glyphs
  THEN [ok |-> TRUE, glyf_dst |-> glyf_dst, loca_dst |-> loca_dst,
        glyf_offset |-> glyf_offset]
  ELSE
    Bind(NormalizeStoreLoca(index_fmt, glyf_offset,
                            i * LocaEntrySize(index_fmt), loca_dst),
         LAMBDA loca1 :
    Bind(GetGlyphData(font, i), LAMBDA gd :
    Bind(IF gd.ok /\ gd.size > 0
         THEN ReadGlyph(font.tables[kGlyfTableTag].data,
                        font.tables[kGlyfTableTag].at + gd.at, gd.size)
         ELSE EmptyGlyph, LAMBDA glyph :
      IF ~gd.ok \/ ~glyph.ok
      THEN [ok |-> FALSE, glyf_dst |-> glyf_dst, loca_dst |-> loca1,
            glyf_offset |-> glyf_offset]
      ELSE
        Bind(StoreGlyph(NormalizeSimpleGlyphBoundingBox(glyph), glyf_dst,
                        glyf_offset, glyf_dst.len - glyf_offset), LAMBDA sg :
          IF ~sg.ok
          THEN [ok |-> FALSE, glyf_dst |-> sg.mem, loca_dst |-> loca1,
                glyf_offset |-> glyf_offset]
          ELSE IF index_fmt = 0
                  /\ glyf_offset + Round4(sg.glyph_size) >= 131072
          THEN [ok |-> FALSE, glyf_dst |-> sg.mem, loca_dst |-> loca1,
                glyf_offset |-> glyf_offset]
          ELSE WriteNormalizedGlyphs(font, index_fmt, num_glyphs, i + 1,
                 sg.mem, loca1, glyf_offset + Round4(sg.glyph_size))))))

\* WriteNormalizedLoca: on failure the two tables keep the data they had,
\* and a glyf table that came out empty is a failure
WriteNormalizedLoca(index_fmt, num_glyphs, font, glyf_buffer_size) ==
  Bind(WriteNormalizedGlyphs(font, index_fmt, num_glyphs, 0,
         MkMem(glyf_buffer_size, 0),
         MkMem(Round4(num_glyphs + 1) * LocaEntrySize(index_fmt), 0), 0),
       LAMBDA w :
    IF ~w.ok \/ w.glyf_offset = 0 THEN [font EXCEPT !.ok = FALSE]
    ELSE
      [font EXCEPT
         !.tables[kGlyfTableTag].data =
            SliceMem(w.glyf_dst, 0, w.glyf_offset),
         !.tables[kGlyfTableTag].at = 0,
         !.tables[kGlyfTableTag].length = w.glyf_offset,
         !.tables[kLocaTableTag].data =
            NormalizeStoreLoca(index_fmt, w.glyf_offset,
                               num_glyphs * LocaEntrySize(index_fmt),
                               w.loca_dst),
         !.tables[kLocaTableTag].at = 0,
         !.tables[kLocaTableTag].length =
            (num_glyphs + 1) * LocaEntrySize(index_fmt)])

\* NormalizeGlyphs: the index format of the input is the one tried first
NormalizeGlyphs(font) ==
  IF ~HasTable(font, kHeadTableTag) THEN [font EXCEPT !.ok = FALSE]
  ELSE IF /\ HasTable(font, kCffTableTag)
          /\ ~HasTable(font, kLocaTableTag)
          /\ ~HasTable(font, kGlyfTableTag)
  THEN font
  ELSE IF ~HasTable(font, kLocaTableTag) \/ ~HasTable(font, kGlyfTableTag)
  THEN [font EXCEPT !.ok = FALSE]
  ELSE
    Bind(IndexFormat(font), LAMBDA index_fmt :
    Bind(NumGlyphs(font), LAMBDA num_glyphs :
    Bind((11 * font.tables[kGlyfTableTag].length) \div 10 + 2 * num_glyphs,
         LAMBDA max_normalized_glyf_size :
    Bind(WriteNormalizedLoca(index_fmt, num_glyphs, font,
                             max_normalized_glyf_size), LAMBDA first :
      IF first.ok THEN first
      ELSE IF index_fmt # 0 THEN [font EXCEPT !.ok = FALSE]
      ELSE
        Bind(WriteNormalizedLoca(1, num_glyphs, font,
                                 max_normalized_glyf_size), LAMBDA second :
          IF ~second.ok THEN [font EXCEPT !.ok = FALSE]
          ELSE [second EXCEPT
                  !.tables[kHeadTableTag].data =
                     PutSeq(@, second.tables[kHeadTableTag].at + 51,
                            <<1>>)])))))

RECURSIVE NormalizeOffsetsFrom(_, _, _)
NormalizeOffsetsFrom(font, tags, offset) ==
  IF tags = <<>> THEN font
  ELSE NormalizeOffsetsFrom(
         [font EXCEPT !.tables[tags[1]].offset = offset], Tail(tags),
         offset + Round4(font.tables[tags[1]].length))

NormalizeOffsets(font) ==
  NormalizeOffsetsFrom(font, TagsOf(font),
                       kSfntHeaderSize + kSfntEntrySize * font.num_tables)

\* the sum modulo 2^32 of n big-endian words
WordSum(buf, at, n) ==
  LET lo == LaneSum(buf, at, n, 2) * 256 + LaneSum(buf, at, n, 3)
      hi == LaneSum(buf, at, n, 0) * 256 + LaneSum(buf, at, n, 1)
            + (lo \div 65536)
  IN <<hi % 65536, lo % 65536>>

\* ComputeChecksum of the normalizer: whole words from buf on, as long as
\* they start below size
ComputeChecksum(buf, at, size) == WordSum(buf, at, (size + 3) \div 4)

RECURSIVE TableRecordSum(_, _)
TableRecordSum(font, tags) ==
  IF tags = <<>> THEN WZero
  ELSE LET table == font.tables[tags[1]] IN
    WAdd(WAdd(WAdd(W32(table.tag), table.checksum),
              WAdd(W32(table.offset), W32(table.length))),
         TableRecordSum(font, Tail(tags)))

ComputeHeaderChecksum(font) ==
  WAdd(WAdd(W32(font.flavor),
            WAdd(<<font.num_tables, SearchRange(font.num_tables)>>,
                 <<Log2Floor(font.num_tables), RangeShift(font.num_tables)>>)),
       TableRecordSum(font, TagsOf(font)))

RECURSIVE SetTableChecksums(_, _)
SetTableChecksums(font, tags) ==
  IF tags = <<>> THEN font
  ELSE SetTableChecksums(
         [font EXCEPT !.tables[tags[1]].checksum =
            ComputeChecksum(font.tables[tags[1]].data, font.tables[tags[1]].at,
                            font.tables[tags[1]].length)],
         Tail(tags))

RECURSIVE SumTableChecksums(_, _)
SumTableChecksums(font, tags) ==
  IF tags = <<>> THEN WZero
  ELSE WAdd(font.tables[tags[1]].checksum, SumTableChecksums(font, Tail(tags)))

\* FixChecksums of the normalizer
NormalizeFixChecksums(font) ==
  IF ~HasTable(font, kHeadTableTag) THEN [font EXCEPT !.ok = FALSE]
  ELSE IF font.tables[kHeadTableTag].length < 12
  THEN [font EXCEPT !.ok = FALSE]
  ELSE
    Bind(SetTableChecksums(
           [font EXCEPT !.tables[kHeadTableTag].data =
              StoreU32(@, kCheckSumAdjustmentOffset, 0)],
           TagsOf(font)), LAMBDA f :
      [f EXCEPT !.tables[kHeadTableTag].data =
         StoreW32(@, kCheckSumAdjustmentOffset,
           WSub(kChecksumMagic,
                WAdd(SumTableChecksums(f, TagsOf(f)),
                     ComputeHeaderChecksum(f))))])

\* f, when the font is still good
Then(font, F(_)) == IF font.ok THEN F(font) ELSE font

NormalizeFont(font) ==
  Then(MakeEditableBuffer(font, kHeadTableTag), LAMBDA f1 :
  Then(RemoveDigitalSignature(f1), LAMBDA f2 :
  Then(NormalizeGlyphs(f2), LAMBDA f3 :
  Then(NormalizeOffsets(f3), LAMBDA f4 : NormalizeFixChecksums(f4)))))

----------------------------------------------------------------------------
(* The WOFF2 encoder, for an input that is one font *)

MaxWOFF2CompressedSize(length, extended_metadata_length) ==
  length + 1024 + extended_metadata_length

CompressedBufferSize(original_size) == (12 * original_size) \div 10 + 10240

\* Compress: the compressor fails when its output does not fit result_len
Compress(mem, result_len, pad) ==
  Bind(BrotliCompress(mem, pad), LAMBDA c :
    [ok |-> c.len <= result_len, out |-> c])

\* TransformFontCollection: a font without glyf and loca is left as it is
TransformFontCollection(font) == font

\* the tables of the font in the order of the WOFF2 directory
OutputOrderedTags(font) ==
  SortedSeqOf({t \in DOMAIN font.tables : ~IsTransformedTag(t)})

\* the table whose bytes go to the stream for tag: its transformed version
\* when there is one
StreamTable(font, tag) ==
  IF HasTable(font, TransformedTag(tag))
  THEN font.tables[TransformedTag(tag)] ELSE font.tables[tag]

ComputeTotalTransformLength(font) ==
  SumSeq([k \in 1 .. Len(TagsOf(font)) |->
            IF IsTransformedTag(TagsOf(font)[k])
               \/ ~HasTable(font, TransformedTag(TagsOf(font)[k]))
            THEN font.tables[TagsOf(font)[k]].length ELSE 0])

\* "Collect all transformed data into one place"
TransformBuf(font) ==
  MemCatAll([k \in 1 .. Len(OutputOrderedTags(font)) |->
    SliceMem(StreamTable(font, OutputOrderedTags(font)[k]).data,
             StreamTable(font, OutputOrderedTags(font)[k]).at,
             StreamTable(font, OutputOrderedTags(font)[k]).length)])

\* index_by_offset finds the offset of a table already there
DuplicateOffsets(font) ==
  \E t, u \in {x \in DOMAIN font.tables : ~IsTransformedTag(x)} :
    t # u /\ font.tables[t].offset = font.tables[u].offset

\* the entries of the WOFF2 directory
Woff2Tables(font, total_compressed_length) ==
  [k \in 1 .. Len(OutputOrderedTags(font)) |->
     LET tag == OutputOrderedTags(font)[k] IN
     [tag |-> tag,
      flags |-> (IF HasTable(font, TransformedTag(tag))
                 THEN kWoff2FlagsTransform ELSE 0)
                + (IF k = 1 THEN 0 ELSE kWoff2FlagsContinueStream),
      src_length |-> font.tables[tag].length,
      transform_length |-> StreamTable(font, tag).length,
      dst_length |-> IF k = 1 THEN total_compressed_length ELSE 0]]

StoreTableEntry(table) ==
  <<KnownTableIndex(table.tag)>>
  \o (IF KnownTableIndex(table.tag) % 64 = 63 THEN U32Bytes(table.tag)
      ELSE <<>>)
  \o StoreBase128(table.src_length)
  \o (IF BitAnd(table.flags, kWoff2FlagsTransform) # 0
      THEN StoreBase128(table.transform_length) ELSE <<>>)

TableEntrySize(table) ==
  (IF KnownTableIndex(table.tag) % 64 # 63 THEN 1 ELSE 5)
  + Base128Size(table.src_length)
  + (IF BitAnd(table.flags, kWoff2FlagsTransform) # 0
     THEN Base128Size(table.transform_length) ELSE 0)

RECURSIVE CompressedDataSize(_, _, _)
CompressedDataSize(tables, k, size) ==
  IF k > Len(tables) THEN size
  ELSE CompressedDataSize(tables, k + 1, Round4(size + tables[k].dst_length))

ComputeWoff2Length(tables, extended_metadata_length) ==
  CompressedDataSize(tables, 1,
    kWoff2HeaderSize
    + SumSeq([k \in 1 .. Len(tables) |-> TableEntrySize(tables[k])]))
  + extended_metadata_length

ComputeUncompressedLength(font) ==
  kSfntHeaderSize + kSfntEntrySize * font.num_tables
  + SumSeq([k \in 1 .. Len(TagsOf(font)) |->
              IF IsTransformedTag(TagsOf(font)[k]) THEN 0
              ELSE Round4(font.tables[TagsOf(font)[k]].length)])

AnyResultLength(woff2_length, result_length) == FALSE

\* "Result allocation was too small"
ResultTooSmall(woff2_length, result_length) == woff2_length > result_length

\* the 48 bytes of the WOFF2 header
Woff2HeaderBytes(font, tables, woff2_length, total_compressed_length, metadata_length, extended_metadata_length) ==
  U32Bytes(kWoff2Signature) \o U32Bytes(font.flavor) \o U32Bytes(woff2_length)
  \o U16Bytes(Len(tables)) \o U16Bytes(0)
  \o U32Bytes(ComputeUncompressedLength(font))
  \o U32Bytes(total_compressed_length)
  \o BytesAt(font.tables[kHeadTableTag].data,
             font.tables[kHeadTableTag].at + 4, 4)
  \o (IF metadata_length > 0
      THEN U32Bytes(woff2_length - metadata_length)
           \o U32Bytes(metadata_length) \o U32Bytes(extended_metadata_length)
      ELSE U32Bytes(0) \o U32Bytes(0) \o U32Bytes(0))
  \o U32Bytes(0) \o U32Bytes(0)

\* ConvertTTFToWOFF2 from the header on: the bytes in result, a buffer that
\* the caller has filled with zeros, and the offset after the last of them
StoreWoff2(font, tables, stream, metadata, extended_metadata_length, woff2_length, result) ==
  Bind(Woff2HeaderBytes(font, tables, woff2_length, stream.len, metadata.len,
                        extended_metadata_length)
       \o ConcatAll([k \in 1 .. Len(tables) |-> StoreTableEntry(tables[k])]),
       LAMBDA head :
  Bind(Round4(Len(head) + stream.len), LAMBDA offset :
    [offset |-> offset + metadata.len,
     mem |-> CopyMem(CopyMem(PutSeq(result, 0, head), Len(head), stream, 0,
                             stream.len),
                     offset, metadata, 0, metadata.len)]))

EncFail == [done |-> TRUE, ok |-> FALSE, out |-> MkMem(0, 0)]

\* ConvertTTFToWOFF2, once the font is read, normalized and transformed
EncodeFont(font, result_length, extended_metadata, pad) ==
  Bind(Compress(TransformBuf(font),
                CompressedBufferSize(ComputeTotalTransformLength(font)), pad),
       LAMBDA c :
  Bind(IF extended_metadata.len > 0
       THEN Compress(extended_metadata,
                     CompressedBufferSize(extended_metadata.len), pad)
       ELSE [ok |-> TRUE, out |-> MkMem(0, 0)], LAMBDA mc :
    IF ~c.ok \/ ~mc.ok THEN EncFail
    ELSE IF DuplicateOffsets(font) THEN EncFail
    ELSE
      Bind(Woff2Tables(font, c.out.len), LAMBDA tables :
      Bind(ComputeWoff2Length(tables, mc.out.len), LAMBDA woff2_length :
        IF ResultTooSmall(woff2_length, result_length) THEN EncFail
        ELSE
          Bind(StoreWoff2(font, tables, c.out, mc.out, extended_metadata.len,
                          woff2_length, MkMem(result_length, 0)), LAMBDA w :
            IF woff2_length # w.offset THEN EncFail
            ELSE [done |-> TRUE, ok |-> TRUE,
                  out |-> [w.mem EXCEPT !.len = woff2_length]])))))

\* ConvertTTFToWOFF2(data, length, result, result_length, quality,
\* extended_metadata); pad is what the compressor adds to its output
ConvertTTFToWOFF2(d, result_length, extended_metadata, pad) ==
  Bind(Then(ReadFont(d), LAMBDA f :
         Then(NormalizeFont(f), LAMBDA g : TransformFontCollection(g))),
       LAMBDA font :
    IF ~font.ok THEN EncFail
    ELSE EncodeFont(font, result_length, extended_metadata, pad))

----------------------------------------------------------------------------
(* Fonts given to the encoder *)

RECURSIVE SfntOffsets(_, _)
SfntOffsets(tabs, offset) ==
  IF tabs = <<>> THEN <<>>
  ELSE <<offset>> \o SfntOffsets(Tail(tabs), offset + Round4(Len(tabs[1].body)))

\* an sfnt with the tables tabs, in this order in the directory and in the
\* file, every table followed by padding bytes of value padbyte
SfntBytes(flavor, tabs, padbyte) ==
  LET offsets == SfntOffsets(tabs, kSfntHeaderSize + kSfntEntrySize * Len(tabs))
  IN FromSeq(
       U32Bytes(flavor) \o U16Bytes(Len(tabs)) \o <<0, 0, 0, 0, 0, 0>>
       \o ConcatAll([k \in 1 .. Len(tabs) |->
            U32Bytes(tabs[k].tag) \o <<0, 0, 0, 0>> \o U32Bytes(offsets[k])
            \o U32Bytes(Len(tabs[k].body))])
       \o ConcatAll([k \in 1 .. Len(tabs) |->
            tabs[k].body
            \o [j \in 1 .. PaddingSize(Len(tabs[k].body)) |-> padbyte]]))

STab(tag, body) == [tag |-> tag, body |-> body]

CffT == STab(kCffTableTag, <<1, 0, 4, 1, 9>>)

Cff8T == STab(kCffTableTag, <<1, 0, 4, 1, 9, 9, 9, 9>>)

HeadT == STab(kHeadTableTag, <<0, 1, 0, 0, 0, 1, 0, 0, 17, 34, 51, 68>>)

Head10T == STab(kHeadTableTag, <<0, 1, 0, 0, 0, 1, 0, 0, 17, 34>>)

NameT == STab(kNameTableTag, <<7, 7>>)

DsigT == STab(kDsigTableTag, <<7, 7, 7>>)

GlyfT == STab(kGlyfTableTag, <<0, 0, 0, 0>>)

LocaT == STab(kLocaTableTag, <<0, 0, 0, 2>>)

\* the table lists of the fonts: fonts that encode, with their tables in
\* and out of tag order, with and without a signature, and fonts that do not
FontTables ==
  {<<kOttoFlavor, <<CffT, HeadT>>>>,
   <<kOttoFlavor, <<HeadT, CffT>>>>,
   <<kOttoFlavor, <<Cff8T, HeadT>>>>,
   <<kOttoFlavor, <<CffT, DsigT, HeadT>>>>,
   <<kOttoFlavor, <<CffT, HeadT, NameT>>>>,
   <<kOttoFlavor, <<NameT, HeadT, DsigT, CffT>>>>,
   <<kOttoFlavor, <<CffT, Head10T>>>>,
   <<kOttoFlavor, <<CffT>>>>,
   <<kOttoFlavor, <<CffT, CffT, HeadT>>>>,
   <<kTrueTypeFlavor, <<HeadT>>>>,
   <<kTrueTypeFlavor, <<GlyfT, HeadT>>>>,
   <<kTrueTypeFlavor, <<HeadT, LocaT>>>>,
   <<kOttoFlavor, <<CffT, GlyfT, HeadT>>>>}

PadBytes == {0, 255}

\* an sfnt whose table records are written as given: recs are the records
\* <<tag, offset, length>> and tail the bytes after the table directory
SfntRaw(flavor, recs, tail) ==
  FromSeq(
    U32Bytes(flavor) \o U16Bytes(Len(recs)) \o <<0, 0, 0, 0, 0, 0>>
    \o ConcatAll([k \in 1 .. Len(recs) |->
         U32Bytes(recs[k][1]) \o <<0, 0, 0, 0>> \o U32Bytes(recs[k][2])
         \o U32Bytes(recs[k][3])])
    \o tail)

\* fonts whose records point into the same bytes, or beside the tables
RawFonts ==
  {SfntRaw(kOttoFlavor, recs, HeadT.body \o <<1, 0, 4, 1>>) : recs \in
     {<<<<kCffTableTag, 44, 12>>, <<kHeadTableTag, 44, 12>>>>,
      <<<<kCffTableTag, 72, 4>>, <<kHeadTableTag, 60, 12>>,
        <<kNameTableTag, 60, 4>>>>,
      <<<<kCffTableTag, 64, 4>>, <<kHeadTableTag, 48, 12>>>>,
      <<<<kCffTableTag, 56, 4>>, <<kHeadTableTag, 44, 12>>>>,
      <<<<kCffTableTag, 52, 4>>, <<kHeadTableTag, 44, 12>>>>,
      <<<<kCffTableTag, 58, 2>>, <<kHeadTableTag, 44, 12>>>>,
      <<<<kCffTableTag, 56, 8>>, <<kHeadTableTag, 44, 12>>>>,
      <<<<kCffTableTag, 12, 4>>, <<kHeadTableTag, 44, 12>>>>,
      <<<<kCffTableTag, 56, 4>>, <<kHeadTableTag, 40, 12>>>>,
      <<<<kCffTableTag, 56, 0>>, <<kHeadTableTag, 44, 12>>>>}}

EncoderFonts ==
  {SfntBytes(ft[1], ft[2], padbyte) : ft \in FontTables, padbyte \in PadBytes}
  \cup RawFonts

\* the extended metadata given to the encoder
Metadata == {MkMem(0, 0), FromSeq(<<60, 97, 47, 62>>)}

\* how many bytes the compressor may add to what it writes
MaxPad == 1100

----------------------------------------------------------------------------
(* The compressor and the round trips around it: woff2_compress, the        *)
(* normalized font written out, and the steps of the fuzzing harness        *)

NotYet == [done |-> FALSE, ok |-> FALSE, out |-> MkMem(0, 0)]

InitRT ==
  /\ ttf \in EncoderFonts
  /\ meta \in [text : Metadata, pad : {0, MaxPad}, fill : {0, 170}]
  /\ enc1 = NotYet /\ norm1 = NotYet /\ dec1 = NotYet /\ enc2 = NotYet
  /\ data = MkMem(0, 0)
  /\ dec = Idle(0, NewTable)
  /\ out = MkMem(0, 0)
  /\ stage = "codec"
  /\ cin = 0 /\ cout = 0

\* main of woff2_compress: the output buffer has MaxWOFF2CompressedSize bytes
Compress1 ==
  /\ ~enc1.done
  /\ enc1' = ConvertTTFToWOFF2(ttf,
               MaxWOFF2CompressedSize(ttf.len, meta.text.len), meta.text,
               meta.pad)
  /\ UNCHANGED <<decvars, codecvars, stage, ttf, meta, norm1, dec1, enc2>>

\* the normalized font, written out into a buffer of FontFileSize bytes
WriteNormalized(d, fill) ==
  Bind(Then(ReadFont(d), LAMBDA f : NormalizeFont(f)), LAMBDA font :
    IF ~font.ok THEN EncFail
    ELSE
      Bind(WriteFont(font, MkMem(FontFileSize(font), fill), FontFileSize(font)),
           LAMBDA w : [done |-> TRUE, ok |-> w.ok, out |-> w.mem]))

Normalize1 ==
  /\ ~norm1.done
  /\ norm1' = WriteNormalized(ttf, meta.fill)
  /\ UNCHANGED <<decvars, codecvars, stage, ttf, meta, enc1, dec1, enc2>>

\* the decoder on what the encoder wrote, with a result buffer of the size
\* that the header of the file gives
Decoded(w, fill) ==
  Bind(ConvertWOFF2ToTTF(ComputeWOFF2FinalSize(w), fill, w, NewTable),
       LAMBDA s : [done |-> TRUE, ok |-> s.ret = "true", out |-> s.result])

Decompress1 ==
  /\ enc1.done /\ enc1.ok
  /\ ~dec1.done
  /\ dec1' = Decoded(enc1.out, meta.fill)
  /\ UNCHANGED <<decvars, codecvars, stage, ttf, meta, enc1, norm1, enc2>>

\* "Convert back to encoded version": the buffer has the size of the first
\* encoding
Compress2 ==
  /\ dec1.done
  /\ ~enc2.done
  /\ enc2' = ConvertTTFToWOFF2(dec1.out, enc1.out.len, meta.text, meta.pad)
  /\ UNCHANGED <<decvars, codecvars, stage, ttf, meta, enc1, norm1, dec1>>

NextRT ==
  \/ Compress1
  \/ Normalize1
  \/ Decompress1
  \/ Compress2

SpecRT == InitRT /\ [][NextRT]_vars

----------------------------------------------------------------------------
(* Properties of the round trips *)

\* C1, as the specification states it: the decoder, run on what the encoder
\* wrote, succeeds and gives byte for byte the normalized font
C1_RoundTrip ==
  (dec1.done /\ norm1.done) =>
    dec1.ok /\ norm1.ok /\ SameBytes(dec1.out, norm1.out)

\* C2, as the specification states it: encoding the decoded font again
\* succeeds and gives the bytes of the first encoding
C2_Stable ==
  enc2.done =>
    enc2.ok /\ enc2.out.len = enc1.out.len /\ SameBytes(enc2.out, enc1.out)

\* the sum modulo 2^32 of the words of a whole file
FileSum(mem) == WordSum(mem, 0, (mem.len + 3) \div 4)

\* C3, as the specification states it: the words of a decoded font, and of
\* a normalized font written out, sum to 0xB1B0AFBA
C3_ChecksumLaw ==
  /\ (dec1.done /\ dec1.ok) => FileSum(dec1.out) = kChecksumMagic
  /\ (norm1.done /\ norm1.ok) => FileSum(norm1.out) = kChecksumMagic

\* C10: a WOFF2 file that the encoder emits has at most
\* input_len + 1024 + m bytes
C10_SizeBound ==
  (enc1.done /\ enc1.ok) =>
    enc1.out.len <= MaxWOFF2CompressedSize(ttf.len, meta.text.len)

\* an encoding with metadata that is longer than its input, within the bound
C10_Witness ==
  /\ enc1.done /\ enc1.ok
  /\ meta.text.len > 0
  /\ enc1.out.len > ttf.len
  /\ enc1.out.len <= MaxWOFF2CompressedSize(ttf.len, meta.text.len)

----------------------------------------------------------------------------
(* Properties of the layout of the emitted fonts *)

\* the offsets of the table records of the font whose offset table is at
\* `at`, in the order of its table directory
RecordOffsets(mem, at) ==
  [k \in 1 .. U16At(mem, at + 4) |->
     U32At(mem, at + kSfntHeaderSize + kSfntEntrySize * (k - 1) + 8)]

\* where the offset tables of an emitted file are
OffsetTablesOf(mem) ==
  IF U32At(mem, 0) = kTtcFontFlavor
  THEN {U32At(mem, 12 + 4 * (f - 1)) : f \in 1 .. U32At(mem, 8)}
  ELSE {0}

StrictlyIncreasing(offsets) ==
  \A k \in 1 .. Len(offsets) - 1 : offsets[k] < offsets[k + 1]

Aligned(offsets) == \A k \in 1 .. Len(offsets) : offsets[k] % 4 = 0

\* C11, as the specification states it: in every font that the decoder
\* emits the table offsets, taken in the order of the table directory, are
\* strictly increasing and multiples of 4
C11_OffsetsIncreasing ==
  Returned("true") =>
    \A at \in OffsetTablesOf(dec.result) :
      /\ StrictlyIncreasing(RecordOffsets(dec.result, at))
      /\ Aligned(RecordOffsets(dec.result, at))

\* the part of C11 that the decoder keeps: every offset is a multiple of 4
C11_OffsetsAligned ==
  Returned("true") =>
    \A at \in OffsetTablesOf(dec.result) :
      Aligned(RecordOffsets(dec.result, at))

\* the sum of the words of the tables that the records k .. n of the font
\* at `at` point to
RECURSIVE RecordTableSums(_, _, _)
RecordTableSums(mem, at, k) ==
  IF k > U16At(mem, at + 4) THEN WZero
  ELSE
    LET e == at + kSfntHeaderSize + kSfntEntrySize * (k - 1) IN
    WAdd(ComputeULongSum(mem, U32At(mem, e + 8), U32At(mem, e + 12)),
         RecordTableSums(mem, at, k + 1))

\* the sum of the words of one font of a file: its offset table, its table
\* records and the tables it references
FontSum(mem, at) ==
  WAdd(ComputeULongSum(mem, at,
         kSfntHeaderSize + kSfntEntrySize * U16At(mem, at + 4)),
       RecordTableSums(mem, at, 1))

DecodedCollection ==
  Returned("true") /\ U32At(dec.result, 0) = kTtcFontFlavor

\* C12, as the specification states it: after the decode of a collection
\* the words of every font of it sum to 0xB1B0AFBA
C12_CollectionChecksums ==
  DecodedCollection =>
    \A at \in OffsetTablesOf(dec.result) :
      FontSum(dec.result, at) = kChecksumMagic

\* the part of C12 that the decoder keeps: the law holds for the font of
\* the collection that the decoder fixed last
LastOffsetTable(mem) == U32At(mem, 12 + 4 * (U32At(mem, 8) - 1))

C12_LastFontChecksum ==
  DecodedCollection =>
    FontSum(dec.result, LastOffsetTable(dec.result)) = kChecksumMagic

----------------------------------------------------------------------------
(* Properties of the font reader *)

\* the table records of an sfnt as they stand in its bytes
RecordsOf(d) ==
  [k \in 1 .. U16At(d, 4) |->
     LET e == kSfntHeaderSize + kSfntEntrySize * (k - 1) IN
     [tag |-> U32At(d, e), offset |-> U32At(d, e + 8),
      length |-> U32At(d, e + 12)]]

Overlapping(t, u) ==
  t.offset < u.offset + u.length /\ u.offset < t.offset + t.length

ReadFontAccepts == enc1.done /\ ReadFont(ttf).ok

\* C14, as the specification states it: in a font that ReadFont accepts
\* every table offset is a multiple of 4, every table lies inside the input
\* and behind the table directory, no two tables overlap and no tag occurs
\* twice
C14_ReadFontChecks ==
  ReadFontAccepts =>
    LET recs == RecordsOf(ttf) IN
    \A j \in 1 .. Len(recs) :
      /\ recs[j].offset % 4 = 0
      /\ recs[j].offset + recs[j].length <= ttf.len
      /\ recs[j].offset >= kSfntHeaderSize + kSfntEntrySize * Len(recs)
      /\ \A k \in 1 .. Len(recs) :
           j # k => /\ ~Overlapping(recs[j], recs[k])
                    /\ recs[j].tag # recs[k].tag

\* the part of C14 that ReadFont keeps: everything but the overlap of tables
\* that start at the same offset
C14_ReadFontChecksButSameOffset ==
  ReadFontAccepts =>
    LET recs == RecordsOf(ttf) IN
    \A j \in 1 .. Len(recs) :
      /\ recs[j].offset % 4 = 0
      /\ recs[j].offset + recs[j].length <= ttf.len
      /\ recs[j].offset >= kSfntHeaderSize + kSfntEntrySize * Len(recs)
      /\ \A k \in 1 .. Len(recs) :
           j # k => /\ recs[j].offset # recs[k].offset
                         => ~Overlapping(recs[j], recs[k])
                    /\ recs[j].tag # recs[k].tag

-----------------------------------------------------------------------------
(* The readers and writers of the variable-length numbers, taken on their
   own: cin is the input of one call, cout what the call gave back *)

NotRun == [done |-> FALSE]

\* (result << 7) | (code & 0x7f) on a 32-bit word kept as two 16-bit halves
ShiftIn7(result, code) ==
  <<(result[1] * 128 + result[2] \div 512) % 65536,
    (result[2] % 512) * 128 + (code % 128)>>

\* result & 0xe0000000
TopThreeBits(result) == result[1] \div 8192

\* ReadBase128 of woff2/woff2.cc over the bytes of a buffer; used counts the
\* bytes that ReadU8 consumed
RECURSIVE ReadBase128Checked(_, _, _)
ReadBase128Checked(bytes, i, result) ==
  IF i = 5 THEN [ok |-> FALSE, value |-> result, used |-> i]
  ELSE IF i + 1 > Len(bytes) THEN [ok |-> FALSE, value |-> result, used |-> i]
  ELSE LET code == bytes[i + 1] IN
    IF TopThreeBits(result) # 0
    THEN [ok |-> FALSE, value |-> result, used |-> i + 1]
    ELSE IF code < 128
    THEN [ok |-> TRUE, value |-> ShiftIn7(result, code), used |-> i + 1]
    ELSE ReadBase128Checked(bytes, i + 1, ShiftIn7(result, code))

\* ReadBase128 of cpp/woff2.cc, which shifts without a test
RECURSIVE ReadBase128Unchecked(_, _, _)
ReadBase128Unchecked(bytes, i, result) ==
  IF i = 5 THEN [ok |-> FALSE, value |-> result, used |-> i]
  ELSE IF i + 1 > Len(bytes) THEN [ok |-> FALSE, value |-> result, used |-> i]
  ELSE LET code == bytes[i + 1] IN
    IF code < 128
    THEN [ok |-> TRUE, value |-> ShiftIn7(result, code), used |-> i + 1]
    ELSE ReadBase128Unchecked(bytes, i + 1, ShiftIn7(result, code))

\* The big-endian base-128 value of the first n bytes, without a width: the
\* lower half has 16 bits, the upper half has all the others
RECURSIVE ExactBase128(_, _)
ExactBase128(bytes, n) ==
  IF n = 0 THEN <<0, 0>>
  ELSE LET v == ExactBase128(bytes, n - 1)
           low == v[2] * 128 + (bytes[n] % 128)
       IN <<v[1] * 128 + low \div 65536, low % 65536>>

MaxBase128Input == 6

Base128Alphabet == {0, 127, 128, 144, 255}

RECURSIVE SeqsUpTo(_, _)
SeqsUpTo(S, n) ==
  IF n = 0 THEN {<<>>}
  ELSE LET shorter == SeqsUpTo(S, n - 1)
       IN shorter \cup {Append(q, b) : q \in {x \in shorter : Len(x) = n - 1},
                                        b \in S}

Base128Inputs ==
  [kind : {"base128"}, bytes : SeqsUpTo(Base128Alphabet, MaxBase128Input)]

ReadBase128Woff2 ==
  /\ cin.kind = "base128"
  /\ ~cout.done
  /\ cout' = [done |-> TRUE, by |-> "woff2/woff2.cc"]
               @@ ReadBase128Checked(cin.bytes, 0, <<0, 0>>)
  /\ UNCHANGED <<decvars, stage, ttf, meta, enc1, norm1, dec1, enc2, cin>>

ReadBase128Cpp ==
  /\ cin.kind = "base128"
  /\ ~cout.done
  /\ cout' = [done |-> TRUE, by |-> "cpp/woff2.cc"]
               @@ ReadBase128Unchecked(cin.bytes, 0, <<0, 0>>)
  /\ UNCHANGED <<decvars, stage, ttf, meta, enc1, norm1, dec1, enc2, cin>>

\* write255UShort of the Java writer; OutputStream.write keeps the low byte
Write255UShortAsWord(value) == <<253, (value \div 256) % 256, value % 256>>

Write255UShort(value) ==
  IF value < 253 THEN <<value % 256>>
  ELSE IF value < 506 THEN <<255, (value - 253) % 256>>
  ELSE IF value < 762 THEN <<254, (value - 506) % 256>>
  ELSE <<253, (value \div 256) % 256, value % 256>>

MaxUShort == 256 * 256 - 1

UShortInputs == [kind : {"255UShort"}, value : 0 .. MaxUShort]

\* The writer's bytes for a value, handed to Read255UShort
Write255UShortThenRead ==
  /\ cin.kind = "255UShort"
  /\ ~cout.done
  /\ cout' = LET bytes == Write255UShort(cin.value)
             IN [done |-> TRUE, bytes |-> bytes,
                 read |-> Read255UShort(FromSeq(bytes), 0)]
  /\ UNCHANGED <<decvars, stage, ttf, meta, enc1, norm1, dec1, enc2, cin>>

Abs(x) == IF x < 0 THEN 0 - x ELSE x

\* writeTriplet of the Java writer: the byte for the flag stream and the
\* bytes for the coordinate stream
WriteTriplet(onCurve, x, y) ==
  LET absX == Abs(x)
      absY == Abs(y)
      onCurveBit == IF onCurve THEN 0 ELSE 128
      xSignBit == IF x < 0 THEN 0 ELSE 1
      ySignBit == IF y < 0 THEN 0 ELSE 1
      xySignBits == xSignBit + 2 * ySignBit
  IN IF x = 0 /\ absY < 1280
     THEN [flag |-> (onCurveBit + ((absY \div 256) % 16) * 2 + ySignBit) % 256,
           bytes |-> <<absY % 256>>]
     ELSE IF y = 0 /\ absX < 1280
     THEN [flag |-> (onCurveBit + 10 + ((absX \div 256) % 16) * 2 + xSignBit)
                      % 256,
           bytes |-> <<absX % 256>>]
     ELSE IF absX < 65 /\ absY < 65
     THEN [flag |-> (onCurveBit + 20 + (((absX - 1) \div 16) % 4) * 16
                       + (((absY - 1) \div 16) % 4) * 4 + xySignBits) % 256,
           bytes |-> <<(((absX - 1) % 16) * 16 + ((absY - 1) % 16)) % 256>>]
     ELSE IF absX < 769 /\ absY < 769
     THEN [flag |-> (onCurveBit + 84 + 12 * (((absX - 1) \div 256) % 4)
                       + (((absY - 1) \div 256) % 4) * 4 + xySignBits) % 256,
           bytes |-> <<(absX - 1) % 256, (absY - 1) % 256>>]
     ELSE IF absX < 4096 /\ absY < 4096
     THEN [flag |-> (onCurveBit + 120 + xySignBits) % 256,
           bytes |-> <<(absX \div 16) % 256,
                       ((absX % 16) * 16 + (absY \div 256)) % 256,
                       absY % 256>>]
     ELSE [flag |-> (onCurveBit + 124 + xySignBits) % 256,
           bytes |-> <<(absX \div 256) % 256, absX % 256,
                       (absY \div 256) % 256, absY % 256>>]

\* The point loop of writeSimpleGlyph of the Java writer
RECURSIVE WriteTriplets(_, _, _, _)
WriteTriplets(points, i, lastX, lastY) ==
  IF i > Len(points) THEN [flags |-> <<>>, bytes |-> <<>>]
  ELSE LET p == points[i]
           one == WriteTriplet(p.on_curve, p.x - lastX, p.y - lastY)
           rest == WriteTriplets(points, i + 1, p.x, p.y)
       IN [flags |-> <<one.flag>> \o rest.flags,
           bytes |-> one.bytes \o rest.bytes]

MaxPoints == 2

\* Deltas on both sides of every limit of the triplet table
LimitDeltas ==
  {0, 1, 64, 65, 255, 256, 768, 769, 1279, 1280, 4095, 4096, MaxUShort}

SignedLimitDeltas == LimitDeltas \cup {0 - d : d \in LimitDeltas}

FewDeltas == {0, 0 - 65, 1280}

RECURSIVE PointsFrom(_, _, _)
PointsFrom(deltas, x, y) ==
  IF deltas = <<>> THEN <<>>
  ELSE LET d == Head(deltas)
       IN <<[x |-> x + d.dx, y |-> y + d.dy, on_curve |-> d.on_curve]>>
            \o PointsFrom(Tail(deltas), x + d.dx, y + d.dy)

DeltaSeqs ==
  {<<d>> : d \in [dx : SignedLimitDeltas, dy : SignedLimitDeltas,
                  on_curve : BOOLEAN]}
    \cup SeqsUpTo([dx : FewDeltas, dy : FewDeltas, on_curve : BOOLEAN],
                  MaxPoints)

TripletInputs ==
  [kind : {"triplet"}, points : {PointsFrom(q, 0, 0) : q \in DeltaSeqs}]

\* The writer's flag bytes and coordinate bytes, handed to TripletDecode
WriteTripletsThenDecode ==
  /\ cin.kind = "triplet"
  /\ ~cout.done
  /\ cout' = LET w == WriteTriplets(cin.points, 1, 0, 0)
             IN [done |-> TRUE, flags |-> w.flags, bytes |-> w.bytes,
                 read |-> TripletDecode(FromSeq(w.flags), 0, FromSeq(w.bytes),
                                        0, Len(w.bytes), Len(cin.points))]
  /\ UNCHANGED <<decvars, stage, ttf, meta, enc1, norm1, dec1, enc2, cin>>

CodecInputs == Base128Inputs \cup UShortInputs \cup TripletInputs

InitCodec ==
  /\ cin \in CodecInputs
  /\ cout = NotRun
  /\ data = MkMem(0, 0)
  /\ dec = Idle(0, NewTable)
  /\ out = MkMem(0, 0)
  /\ stage = "codec"
  /\ ttf = 0 /\ meta = 0 /\ enc1 = 0 /\ norm1 = 0 /\ dec1 = 0 /\ enc2 = 0

NextCodec ==
  \/ ReadBase128Woff2
  \/ ReadBase128Cpp
  \/ Write255UShortThenRead
  \/ WriteTripletsThenDecode

SpecCodec == InitCodec /\ [][NextCodec]_vars

-----------------------------------------------------------------------------
(* Properties of the variable-length numbers *)

Base128Returned == cin.kind = "base128" /\ cout.done /\ cout.ok

\* C15: ReadBase128 consumes at most 5 bytes, and every value it returns is
\* the exact big-endian base-128 value of the bytes it consumed, no bit of it
\* lost to the 32-bit width
C15_Base128Exact ==
  (cin.kind = "base128" /\ cout.done) =>
    /\ cout.used <= 5
    /\ cout.ok => cout.value = ExactBase128(cin.bytes, cout.used)

\* What both readers do keep: at most 5 bytes, and the value modulo 2^32
C15_Base128Modulo ==
  (cin.kind = "base128" /\ cout.done) =>
    /\ cout.used <= 5
    /\ cout.ok =>
         LET exact == ExactBase128(cin.bytes, cout.used)
         IN cout.value = <<exact[1] % 65536, exact[2]>>

\* The test of woff2/woff2.cc never fires within five bytes
C15_TestNeverFires ==
  (Base128Returned /\ cout.by = "woff2/woff2.cc") =>
    cout = [done |-> TRUE, by |-> "woff2/woff2.cc"]
             @@ ReadBase128Unchecked(cin.bytes, 0, <<0, 0>>)

\* The values that some byte sequence of one byte, or of two bytes, decodes to
\* with all its bytes consumed
ReadAll(bytes) ==
  LET r == Read255UShort(FromSeq(bytes), 0)
  IN IF r.ok /\ r.off = Len(bytes) THEN {r.value} ELSE {}

DecodableIn1 == UNION {ReadAll(<<c>>) : c \in 0 .. 255}

DecodableIn2 == UNION {ReadAll(<<c, b>>) : c \in 0 .. 255, b \in 0 .. 255}

ShortestLength(v) ==
  IF v \in DecodableIn1 THEN 1 ELSE IF v \in DecodableIn2 THEN 2 ELSE 3

UShortRead == cin.kind = "255UShort" /\ cout.done

\* C16: for every v in 0..65535, Read255UShort on the bytes written for v
\* returns v and consumes exactly those bytes, and the written form is the
\* shortest encoding of v: 1 byte below 253, 2 bytes below 762, 3 otherwise
C16_UShortRoundTrip ==
  UShortRead =>
    /\ cout.read.ok
    /\ cout.read.value = cin.value
    /\ cout.read.off = Len(cout.bytes)
    /\ Len(cout.bytes) = ShortestLength(cin.value)
    /\ Len(cout.bytes) = (IF cin.value < 253 THEN 1
                          ELSE IF cin.value < 762 THEN 2 ELSE 3)

C16_WordFormRead == UShortRead /\ cin.value = 762 /\ cout.bytes = <<253, 2, 250>>

TripletRead == cin.kind = "triplet" /\ cout.done

\* C17: for points whose successive deltas stay below 65536 in size,
\* TripletDecode on the written flag and coordinate bytes returns the same
\* points in the same order and reports all coordinate bytes as consumed
C17_TripletRoundTrip ==
  TripletRead =>
    /\ cout.read.ok
    /\ cout.read.points = cin.points
    /\ cout.read.consumed = Len(cout.bytes)

C17_TwoPointsRead ==
  /\ TripletRead
  /\ Len(cin.points) = 2
  /\ cin.points[1] = [x |-> 0 - 65, y |-> 1280, on_curve |-> FALSE]
  /\ cin.points[2] = [x |-> 0 - 65, y |-> 1280 - 65, on_curve |-> TRUE]
  /\ Len(cout.bytes) = 4

C17_LongFormRead ==
  /\ TripletRead
  /\ cin.points = <<[x |-> 0 - MaxUShort, y |-> 4096, on_curve |-> TRUE]>>
  /\ cout.flags = <<126>>

-----------------------------------------------------------------------------
(* Properties of the table loop of the decompressor *)

\* The table directory in the order of the file
DirectoryOfFile == ReadTableDirectory(data, 48, dec.num_tables).tables

StreamStart(tables, k) ==
  SumSeq([j \in 1 .. k - 1 |-> tables[j].transform_length])

DecodedSingleFont ==
  /\ Returned("true")
  /\ dec.flavor # kTtcFontFlavor
  /\ \A j, k \in 1 .. Len(dec.tables) :
       dec.tables[j].tag = dec.tables[k].tag => j = k

\* A table without checkSumAdjustment of head, which FixChecksums rewrites
WithoutAdjustment(tag, mem) ==
  IF tag = kHeadTableTag /\ mem.len >= kCheckSumAdjustmentOffset + 4
  THEN PutSeq(mem, kCheckSumAdjustmentOffset, <<0, 0, 0, 0>>)
  ELSE mem

TableBytes(mem, table) ==
  WithoutAdjustment(table.tag,
                    SliceMem(mem, table.dst_offset, table.dst_length))

SliceBytes(tables, k) ==
  WithoutAdjustment(tables[k].tag,
                    SliceMem(dec.uncompressed_buf, StreamStart(tables, k),
                             tables[k].transform_length))

Untransformed(table) == BitAnd(table.flags, kWoff2FlagsTransform) = 0

\* C19: the k-th entry of the directory of a single font gets the slice of
\* the decompressed stream behind the transform lengths of the entries
\* before it, written at its own dst_offset, whatever the order of the tags
C19_DirectorySlices ==
  DecodedSingleFont =>
    \A k \in 1 .. Len(DirectoryOfFile) :
       LET entry == DirectoryOfFile[k]
           table == dec.tables[FindTable(dec.tables, entry.tag)]
       IN Untransformed(entry) =>
            SameBytes(TableBytes(dec.result, table),
                      SliceBytes(DirectoryOfFile, k))

\* What the loop does: the slices go to the tables in the order of their tags
C19_SortedSlices ==
  DecodedSingleFont =>
    \A k \in 1 .. Len(dec.tables) :
       Untransformed(dec.tables[k]) =>
         SameBytes(TableBytes(dec.result, dec.tables[k]),
                   SliceBytes(dec.tables, k))

-----------------------------------------------------------------------------
(* Fonts with outlines: the normalizer of the C++ encoder and the glyf
   encoder of the Java writer on the same TrueType fonts *)

\* A glyph as its bytes before the instructions, the number of instruction
\* bytes, all of them 0, and its bytes after the instructions
GlyphOf(pre, code_size, post) ==
  [pre |-> pre, code_size |-> code_size, post |-> post]

GlyphLength(g) == Len(g.pre) + g.code_size + Len(g.post)

\* No bytes at all
GlyphNone == GlyphOf(<<>>, 0, <<>>)

\* A header with no contours
GlyphNoContours == GlyphOf(<<0, 0, 0, 0, 0, 0, 0, 0, 0, 0>>, 0, <<>>)

\* One contour of two points, (100, 0) on the curve and (100, 200) off it
TwoPoints(box, code_size) ==
  GlyphOf(<<0, 1>> \o box \o <<0, 1>> \o U16Bytes(code_size), code_size,
          <<51, 52, 100, 200>>)

BoxOfTwoPoints == <<0, 100, 0, 0, 0, 100, 0, 200>>

GlyphTwoPoints == TwoPoints(BoxOfTwoPoints, 0)

GlyphWrongBox == TwoPoints(<<0, 0, 0, 0, 0, 0, 0, 0>>, 0)

\* Two glyphs of the larger size take 1 << 17 bytes once padded to 4 bytes
LargeCode == 65534 - 18

GlyphLarge == TwoPoints(BoxOfTwoPoints, LargeCode)

GlyphLess == TwoPoints(BoxOfTwoPoints, LargeCode - 2)

GlyphLists ==
  {<<>>, <<GlyphNone>>, <<GlyphNoContours>>, <<GlyphTwoPoints>>,
   <<GlyphWrongBox>>, <<GlyphNone, GlyphNone>>, <<GlyphNone, GlyphTwoPoints>>,
   <<GlyphTwoPoints, GlyphNone>>, <<GlyphTwoPoints, GlyphWrongBox>>,
   <<GlyphNoContours, GlyphTwoPoints>>, <<GlyphTwoPoints, GlyphNoContours>>,
   <<GlyphLarge>>, <<GlyphLarge, GlyphLarge>>, <<GlyphLess, GlyphLarge>>,
   <<GlyphLarge, GlyphLess>>, <<GlyphTwoPoints, GlyphLarge, GlyphLess>>}

RECURSIVE GlyphOffsets(_, _)
GlyphOffsets(glyphs, offset) ==
  <<offset>> \o (IF glyphs = <<>> THEN <<>>
                 ELSE GlyphOffsets(Tail(glyphs),
                                   offset + GlyphLength(glyphs[1])))

LocaOf(index_fmt, offsets) ==
  ConcatAll([k \in 1 .. Len(offsets) |->
               IF index_fmt = 0 THEN U16Bytes(offsets[k] \div 2)
               ELSE U32Bytes(offsets[k])])

\* A head table of 54 bytes with indexToLocFormat in its byte 51
HeadOf(index_fmt) ==
  [k \in 1 .. 54 |-> IF k = 52 THEN index_fmt ELSE IF k = 6 THEN 1 ELSE 0]

RECURSIVE PutGlyphs(_, _, _, _)
PutGlyphs(mem, glyphs, offsets, base) ==
  IF glyphs = <<>> THEN mem
  ELSE PutGlyphs(
         PutSeq(PutSeq(mem, base + offsets[1], glyphs[1].pre),
                base + offsets[1] + Len(glyphs[1].pre) + glyphs[1].code_size,
                glyphs[1].post),
         Tail(glyphs), Tail(offsets), base)

\* The TrueType font with the tables glyf, head and loca
GlyphFont(index_fmt, glyphs) ==
  LET offsets == GlyphOffsets(glyphs, 0)
      glyf_length == offsets[Len(offsets)]
      loca == LocaOf(index_fmt, offsets)
      glyf_at == kSfntHeaderSize + 3 * kSfntEntrySize
      head_at == glyf_at + Round4(glyf_length)
      loca_at == head_at + Round4(54)
  IN PutGlyphs(
       PutSeq(
         PutSeq(
           PutSeq(MkMem(loca_at + Round4(Len(loca)), 0), 0,
             U32Bytes(kTrueTypeFlavor) \o U16Bytes(3) \o <<0, 0, 0, 0, 0, 0>>
             \o U32Bytes(kGlyfTableTag) \o <<0, 0, 0, 0>>
             \o U32Bytes(glyf_at) \o U32Bytes(glyf_length)
             \o U32Bytes(kHeadTableTag) \o <<0, 0, 0, 0>>
             \o U32Bytes(head_at) \o U32Bytes(54)
             \o U32Bytes(kLocaTableTag) \o <<0, 0, 0, 0>>
             \o U32Bytes(loca_at) \o U32Bytes(Len(loca))),
           head_at, HeadOf(index_fmt)),
         loca_at, loca),
       glyphs, offsets, glyf_at)

GlyphFonts == {GlyphFont(index_fmt, glyphs) : index_fmt \in {0, 1},
                                              glyphs \in GlyphLists}

\* The steps of NormalizeFont up to the glyphs, on the font that ReadFont gives
NormalizedGlyphs(d) ==
  Bind(Then(ReadFont(d), LAMBDA f :
       Then(MakeEditableBuffer(f, kHeadTableTag), LAMBDA f1 :
       Then(RemoveDigitalSignature(f1), LAMBDA f2 : NormalizeGlyphs(f2)))),
       LAMBDA font : [done |-> TRUE, ok |-> font.ok, font |-> font])

NormalizeGlyphsStep ==
  /\ ~norm1.done
  /\ norm1' = NormalizedGlyphs(ttf)
  /\ UNCHANGED <<decvars, codecvars, stage, ttf, meta, enc1, dec1, enc2>>

\* The streams of GlyfEncoder, with the options reslice, triplet and code
NoStreams ==
  [nContourStream |-> <<>>, nPointsStream |-> <<>>, flagBytesStream |-> <<>>,
   glyfStream |-> <<>>, compositeStream |-> <<>>, bboxStream |-> <<>>,
   codeStream |-> <<>>]

WriteUShort(value) == <<(value \div 256) % 256, value % 256>>

\* writeSimpleGlyph, without the option sbbox
WriteSimpleGlyph(st, glyph) ==
  LET numContours == Len(glyph.contours)
      w == WriteTriplets(PointsOf(glyph), 1, 0, 0)
      codeSize == glyph.instructions.len
  IN [st EXCEPT
        !.nContourStream = @ \o WriteUShort(numContours),
        !.nPointsStream =
           @ \o ConcatAll([k \in 1 .. numContours |->
                             Write255UShort(Len(glyph.contours[k]))]),
        !.flagBytesStream = @ \o w.flags,
        !.glyfStream =
           @ \o w.bytes
             \o (IF numContours > 0 THEN Write255UShort(codeSize) ELSE <<>>),
        !.codeStream =
           IF numContours > 0 /\ codeSize > 0
           THEN Append(@, glyph.instructions) ELSE @]

\* writeGlyph
WriteGlyph(st, glyph, dataLength) ==
  IF dataLength = 0
  THEN [st EXCEPT !.nContourStream = @ \o WriteUShort(0)]
  ELSE WriteSimpleGlyph(st, glyph)

\* encode, the loop over the glyphs
RECURSIVE EncodeGlyphs(_, _, _, _)
EncodeGlyphs(font, glyphId, nGlyphs, st) ==
  IF glyphId >= nGlyphs THEN [ok |-> TRUE, st |-> st]
  ELSE
    Bind(GetGlyphData(font, glyphId), LAMBDA gd :
    Bind(IF gd.ok /\ gd.size > 0
         THEN ReadGlyph(font.tables[kGlyfTableTag].data,
                        font.tables[kGlyfTableTag].at + gd.at, gd.size)
         ELSE EmptyGlyph, LAMBDA glyph :
      IF ~gd.ok \/ ~glyph.ok THEN [ok |-> FALSE, st |-> st]
      ELSE EncodeGlyphs(font, glyphId + 1, nGlyphs,
                        WriteGlyph(st, glyph, gd.size))))

BboxBitmapLength(nGlyphs) == ((nGlyphs + 31) \div 32) * 4

\* encode and then getGlyfBytes: the header of the transformed table, the
\* bitmap and the streams
GlyfEncoderEncode(d) ==
  Bind(ReadFont(d), LAMBDA font :
    IF ~font.ok THEN [done |-> TRUE, ok |-> FALSE]
    ELSE
      Bind(NumGlyphs(font), LAMBDA nGlyphs :
      Bind(EncodeGlyphs(font, 0, nGlyphs, NoStreams), LAMBDA e :
      Bind([k \in 1 .. BboxBitmapLength(nGlyphs) |-> 0], LAMBDA bboxBitmap :
        [done |-> TRUE, ok |-> e.ok, nGlyphs |-> nGlyphs,
         bboxBitmap |-> bboxBitmap, st |-> e.st,
         header |->
           U32Bytes(0) \o WriteUShort(nGlyphs)
           \o WriteUShort(IndexFormat(font))
           \o U32Bytes(Len(e.st.nContourStream))
           \o U32Bytes(Len(e.st.nPointsStream))
           \o U32Bytes(Len(e.st.flagBytesStream))
           \o U32Bytes(Len(e.st.glyfStream))
           \o U32Bytes(Len(e.st.compositeStream))
           \o U32Bytes(Len(bboxBitmap) + Len(e.st.bboxStream))
           \o U32Bytes(SumSeq([k \in 1 .. Len(e.st.codeStream) |->
                                 e.st.codeStream[k].len]))]))))

GlyfEncode ==
  /\ ~enc1.done
  /\ enc1' = GlyfEncoderEncode(ttf)
  /\ UNCHANGED <<decvars, codecvars, stage, ttf, meta, norm1, dec1, enc2>>

InitGlyf ==
  /\ ttf \in GlyphFonts
  /\ enc1 = NotRun /\ norm1 = NotRun
  /\ meta = 0 /\ dec1 = 0 /\ enc2 = 0
  /\ data = MkMem(0, 0)
  /\ dec = Idle(0, NewTable)
  /\ out = MkMem(0, 0)
  /\ stage = "glyf"
  /\ cin = 0 /\ cout = 0

NextGlyf ==
  \/ NormalizeGlyphsStep
  \/ GlyfEncode

SpecGlyf == InitGlyf /\ [][NextGlyf]_vars

-----------------------------------------------------------------------------
(* Properties of the fonts with outlines *)

GlyphsNormalized == norm1.done /\ norm1.ok

NoOverrun ==
  (norm1.done /\ norm1.font.ok) =>
      norm1.font.tables[kGlyfTableTag].length
        <= (11 * ReadFont(ttf).tables[kGlyfTableTag].length) \div 10
             + 2 * NumGlyphs(ReadFont(ttf))

SingleEmptyGlyphFonts ==
  {GlyphFont(index_fmt, glyphs) :
     index_fmt \in {0, 1}, glyphs \in {<<GlyphNone>>, <<GlyphNoContours>>}}

OtherStreamsEmpty(st) ==
  /\ st.nPointsStream = <<>> /\ st.flagBytesStream = <<>>
  /\ st.glyfStream = <<>> /\ st.compositeStream = <<>>
  /\ st.bboxStream = <<>> /\ st.codeStream = <<>>

\* C18: encoding a font whose glyf table holds a single empty glyph succeeds
\* and gives a transformed glyf with numGlyphs = 1, the nContourStream 00 00,
\* all other substreams empty and a bbox bitmap that is the one byte 00
C18_EmptyGlyphEncoded ==
  ttf \in SingleEmptyGlyphFonts =>
    /\ norm1.done => norm1.ok
    /\ enc1.done =>
         /\ enc1.ok
         /\ SubSeq(enc1.header, 5, 6) = <<0, 1>>
         /\ enc1.st.nContourStream = <<0, 0>>
         /\ OtherStreamsEmpty(enc1.st)
         /\ enc1.bboxBitmap = <<0>>

\* What the Java writer gives for such a font: the streams as stated, and a
\* bitmap of four bytes
C18_JavaStreams ==
  (ttf \in SingleEmptyGlyphFonts /\ enc1.done) =>
    /\ enc1.ok
    /\ SubSeq(enc1.header, 5, 6) = <<0, 1>>
    /\ enc1.st.nContourStream = <<0, 0>>
    /\ OtherStreamsEmpty(enc1.st)
    /\ enc1.bboxBitmap = <<0, 0, 0, 0>>

\* What the normalizer does with such a font: it fails
C18_NormalizerFails ==
  (ttf \in SingleEmptyGlyphFonts /\ norm1.done) => ~norm1.ok

\* C20: after NormalizeGlyphs succeeds, loca has the 16-bit form and head
\* byte 51 is 0 when every offset of the rewritten glyf stays below 1 << 17,
\* and loca has the 32-bit form and head byte 51 is 1 exactly when not
C20_ShortFormFirst ==
  GlyphsNormalized =>
    LET font == norm1.font
        fits == font.tables[kGlyfTableTag].length < 131072
        entries == NumGlyphs(ReadFont(ttf)) + 1
    IN /\ fits => /\ IndexFormat(font) = 0
                 /\ font.tables[kLocaTableTag].length = 2 * entries
       /\ ~fits => /\ IndexFormat(font) = 1
                  /\ font.tables[kLocaTableTag].length = 4 * entries

\* What NormalizeGlyphs does: the form of the input is kept when the glyphs
\* can be stored in it, and only the 16-bit form is ever given up
C20_InputFormFirst ==
  GlyphsNormalized =>
    LET font == norm1.font
        fits == font.tables[kGlyfTableTag].length < 131072
        entries == NumGlyphs(ReadFont(ttf)) + 1
        was == IndexFormat(ReadFont(ttf))
        now == IF was = 0 /\ fits THEN 0 ELSE 1
    IN /\ IndexFormat(font) = now
       /\ font.tables[kLocaTableTag].length = LocaEntrySize(now) * entries

C20_LongFormTaken ==
  /\ GlyphsNormalized
  /\ IndexFormat(ReadFont(ttf)) = 0
  /\ IndexFormat(norm1.font) = 1
  /\ norm1.font.tables[kGlyfTableTag].length = 131072

----------------------------------------------------------------------------
(* Font collections given to the encoder: the fonts of a collection as     *)
(* ReadFontCollection and NormalizeFontCollection hand them over. A table  *)
(* that a font shares with an earlier font is marked as reused: reuse_of   *)
(* names the table of the earlier font, and of the two only that table has *)
(* the offset that the normalizer gave it.                                 *)

NotReused == [font |-> 0, tag |-> 0]

IsReused(table) == table.reuse_of.font # 0

\* *table.reuse_of
ReuseOf(font_collection, table) ==
  font_collection.fonts[table.reuse_of.font].tables[table.reuse_of.tag]

MaxFonts == 3

CollectionTags == <<kCffTableTag, kHeadTableTag, kNameTableTag>>

\* for one tag, the font whose table each font uses: its own, or the table
\* of an earlier font that is that font's own
RECURSIVE OriginSeqs(_)
OriginSeqs(n) ==
  IF n = 1 THEN {<<1>>}
  ELSE UNION {{Append(s, g) : g \in {n} \cup {h \in 1 .. n - 1 : s[h] = h}} :
              s \in OriginSeqs(n - 1)}

\* the bytes of the table tag of font f; bare leaves the name table of the
\* first font without bytes
CollectionBody(tag, f, bare) ==
  IF tag = kHeadTableTag THEN <<0, 1, 0, 0, 0, f, 0, 0, 17, 34, 51, 68>>
  ELSE IF tag = kCffTableTag THEN <<1, 0, 4, f>> \o [k \in 1 .. f |-> 9]
  ELSE IF bare /\ f = 1 THEN <<>>
  ELSE <<7, f>>

\* the offsets that the normalizer gives the tables that are not reused,
\* one after the other, in a sequence that runs along keys
RECURSIVE PackedOffsets(_, _, _, _)
PackedOffsets(keys, origin, bare, offset) ==
  IF keys = <<>> THEN <<>>
  ELSE IF origin[keys[1].tag][keys[1].font] # keys[1].font
  THEN <<0>> \o PackedOffsets(Tail(keys), origin, bare, offset)
  ELSE <<offset>>
       \o PackedOffsets(Tail(keys), origin, bare,
            offset + Round4(Len(CollectionBody(keys[1].tag, keys[1].font,
                                               bare))))

CollectionKeys(n) ==
  ConcatAll([f \in 1 .. n |->
               [k \in 1 .. Len(CollectionTags) |->
                  [font |-> f, tag |-> CollectionTags[k]]]])

FirstTableOffset(header_version, n) ==
  CollectionHeaderSize(header_version, n)
  + n * (kSfntHeaderSize + kSfntEntrySize * Len(CollectionTags))

TagIndex(tag) == CHOOSE k \in 1 .. Len(CollectionTags) : CollectionTags[k] = tag

\* the table tag of font f, which uses the bytes of font o: a reused table
\* still has the offset that it had in the file, here the one that the
\* normalizer gave to the first table
MakeTable(tag, f, o, bare, offsets, first) ==
  Bind(CollectionBody(tag, o, bare), LAMBDA body :
    [tag |-> tag, checksum |-> WZero,
     offset |-> IF o = f
                THEN offsets[(f - 1) * Len(CollectionTags) + TagIndex(tag)]
                ELSE first,
     length |-> Len(body), data |-> FromSeq(body), at |-> 0,
     reuse_of |-> IF o = f THEN NotReused ELSE [font |-> o, tag |-> tag]])

\* a collection of n fonts
MakeCollection(header_version, n, origin, bare) ==
  Bind(FirstTableOffset(header_version, n), LAMBDA first :
  Bind(PackedOffsets(CollectionKeys(n), origin, bare, first),
       LAMBDA offsets :
    [header_version |-> header_version,
     fonts |-> [f \in 1 .. n |->
                  [ok |-> TRUE, flavor |-> kOttoFlavor,
                   num_tables |-> Len(CollectionTags),
                   tables |-> [tag \in {CollectionTags[k] :
                                          k \in 1 .. Len(CollectionTags)}
                                 |-> MakeTable(tag, f, origin[tag][f], bare,
                                               offsets, first)]]]]))

HeaderVersions == {Tag4(0, 1, 0, 0), Tag4(0, 2, 0, 0)}

\* the ways in which n fonts share their tables
Sharings(n) ==
  [{CollectionTags[k] : k \in 1 .. Len(CollectionTags)} -> OriginSeqs(n)]

----------------------------------------------------------------------------
(* The WOFF2 encoder, for an input that is a collection *)

\* the tables of the collection, font after font, each font's in the order
\* that tags gives
KeysIn(font_collection, tags(_)) ==
  ConcatAll([f \in 1 .. Len(font_collection.fonts) |->
               [k \in 1 .. Len(tags(font_collection.fonts[f])) |->
                  [font |-> f, tag |-> tags(font_collection.fonts[f])[k]]]])

TableOf(font_collection, key) ==
  font_collection.fonts[key.font].tables[key.tag]

\* ComputeTotalTransformLength of all fonts: a reused table is not counted
CollectionTransformLength(font_collection) ==
  Bind(KeysIn(font_collection, TagsOf), LAMBDA keys :
    SumSeq([k \in 1 .. Len(keys) |->
      IF IsReused(TableOf(font_collection, keys[k])) THEN 0
      ELSE IF IsTransformedTag(keys[k].tag)
              \/ ~HasTable(font_collection.fonts[keys[k].font],
                           TransformedTag(keys[k].tag))
      THEN TableOf(font_collection, keys[k]).length ELSE 0]))

\* "Collect all transformed data into one place", over all fonts
CollectionTransformBuf(font_collection) ==
  Bind(KeysIn(font_collection, TagsOf), LAMBDA keys :
    MemCatAll([k \in 1 .. Len(keys) |->
      IF IsReused(TableOf(font_collection, keys[k]))
         \/ IsTransformedTag(keys[k].tag)
      THEN MkMem(0, 0)
      ELSE Bind(StreamTable(font_collection.fonts[keys[k].font], keys[k].tag),
                LAMBDA table : SliceMem(table.data, table.at, table.length))]))

\* the entries of the WOFF2 directory and the index of each of them by the
\* offset of its table; the walk fails at an offset that it has seen
RECURSIVE CollectionTables(_, _, _, _, _)
CollectionTables(font_collection, keys, total_compressed_length, tables, index_by_offset) ==
  IF keys = <<>>
  THEN [ok |-> TRUE, tables |-> tables, index_by_offset |-> index_by_offset]
  ELSE
    LET font == font_collection.fonts[keys[1].font]
        src_table == font.tables[keys[1].tag]
    IN
    IF IsReused(src_table)
    THEN CollectionTables(font_collection, Tail(keys),
                          total_compressed_length, tables, index_by_offset)
    ELSE IF src_table.offset \in DOMAIN index_by_offset
    THEN [ok |-> FALSE, tables |-> tables, index_by_offset |-> index_by_offset]
    ELSE
      CollectionTables(font_collection, Tail(keys), total_compressed_length,
        Append(tables,
          [tag |-> src_table.tag,
           flags |-> (IF HasTable(font, TransformedTag(src_table.tag))
                      THEN kWoff2FlagsTransform ELSE 0)
                     + (IF tables = <<>> THEN 0
                        ELSE kWoff2FlagsContinueStream),
           src_length |-> src_table.length,
           transform_length |-> StreamTable(font, src_table.tag).length,
           dst_length |-> IF tables = <<>> THEN total_compressed_length
                          ELSE 0]),
        MapPut(index_by_offset, src_table.offset, Len(tables)))

Size255UShort(value) == Len(Store255UShort(value))

\* index_by_offset[offset] of a map that is a copy: an offset that is not
\* in the map gets the index 0
IndexOrZero(index_by_offset, offset) ==
  IF offset \in DOMAIN index_by_offset THEN index_by_offset[offset] ELSE 0

\* ComputeWoff2Length, for a collection of more than one font
ComputeCollectionWoff2Length(font_collection, tables, index_by_offset, extended_metadata_length) ==
  Bind(KeysIn(font_collection, TagsOf), LAMBDA keys :
    CompressedDataSize(tables, 1,
      kWoff2HeaderSize
      + SumSeq([k \in 1 .. Len(tables) |-> TableEntrySize(tables[k])])
      + 4 + Size255UShort(Len(font_collection.fonts))
      + 4 * Len(font_collection.fonts)
      + SumSeq([f \in 1 .. Len(font_collection.fonts) |->
          Size255UShort(Len(TagsOf(font_collection.fonts[f])))])
      + SumSeq([k \in 1 .. Len(keys) |->
          IF IsTransformedTag(keys[k].tag) THEN 0
          ELSE Size255UShort(IndexOrZero(index_by_offset,
                 TableOf(font_collection, keys[k]).offset))]))
    + extended_metadata_length)

\* ComputeUncompressedLength of one font of a collection
ComputeUncompressedFontLength(font) ==
  kSfntHeaderSize + kSfntEntrySize * font.num_tables
  + SumSeq([k \in 1 .. Len(TagsOf(font)) |->
              IF IsTransformedTag(TagsOf(font)[k])
                 \/ IsReused(font.tables[TagsOf(font)[k]]) THEN 0
              ELSE Round4(font.tables[TagsOf(font)[k]].length)])

ComputeUncompressedCollectionLength(font_collection) ==
  CollectionHeaderSize(font_collection.header_version,
                       Len(font_collection.fonts))
  + SumSeq([f \in 1 .. Len(font_collection.fonts) |->
              ComputeUncompressedFontLength(font_collection.fonts[f])])

\* the offset of the table itself, also when the table is reused
OwnTableOffset(font_collection, table) == table.offset

\* "for reused tables, only the original has an updated offset"
TableOffset(font_collection, table) ==
  IF IsReused(table) THEN ReuseOf(font_collection, table).offset
  ELSE table.offset

\* the indices that the collection directory holds for the font, or <<-1>>
\* for "Missing table index for offset"
RECURSIVE FontTableIndices(_, _, _, _)
FontTableIndices(font_collection, font, tags, index_by_offset) ==
  IF tags = <<>> THEN <<>>
  ELSE IF IsTransformedTag(tags[1])
  THEN FontTableIndices(font_collection, font, Tail(tags), index_by_offset)
  ELSE
    Bind(TableOffset(font_collection, font.tables[tags[1]]),
         LAMBDA table_offset :
      IF table_offset \notin DOMAIN index_by_offset THEN <<-1>>
      ELSE
        Bind(FontTableIndices(font_collection, font, Tail(tags),
                              index_by_offset), LAMBDA rest :
          IF rest = <<-1>> THEN rest
          ELSE <<index_by_offset[table_offset]>> \o rest))

\* the 48 bytes of the WOFF2 header of a collection
CollectionHeaderBytes(font_collection, tables, woff2_length, total_compressed_length, metadata_length, extended_metadata_length) ==
  U32Bytes(kWoff2Signature) \o U32Bytes(kTtcFontFlavor)
  \o U32Bytes(woff2_length)
  \o U16Bytes(Len(tables)) \o U16Bytes(0)
  \o U32Bytes(ComputeUncompressedCollectionLength(font_collection))
  \o U32Bytes(total_compressed_length)
  \o BytesAt(font_collection.fonts[1].tables[kHeadTableTag].data,
             font_collection.fonts[1].tables[kHeadTableTag].at + 4, 4)
  \o (IF metadata_length > 0
      THEN U32Bytes(woff2_length - metadata_length)
           \o U32Bytes(metadata_length) \o U32Bytes(extended_metadata_length)
      ELSE U32Bytes(0) \o U32Bytes(0) \o U32Bytes(0))
  \o U32Bytes(0) \o U32Bytes(0)

\* the collection directory, from the indices of every font
CollectionDirectoryBytes(font_collection, indices) ==
  U32Bytes(font_collection.header_version)
  \o Store255UShort(Len(font_collection.fonts))
  \o ConcatAll([f \in 1 .. Len(font_collection.fonts) |->
       Store255UShort(Len(indices[f]))
       \o U32Bytes(font_collection.fonts[f].flavor)
       \o ConcatAll([j \in 1 .. Len(indices[f]) |->
                       Store255UShort(indices[f][j])])])

CollFail ==
  [done |-> TRUE, ok |-> FALSE, out |-> MkMem(0, 0),
   transform_buf |-> MkMem(0, 0)]

\* ConvertTTFToWOFF2 for a collection of more than one font, once the
\* collection is read, normalized and transformed
EncodeFontCollection(font_collection, result_length, extended_metadata, pad) ==
  Bind(CollectionTransformBuf(font_collection), LAMBDA transform_buf :
  Bind(Compress(transform_buf,
                CompressedBufferSize(
                  CollectionTransformLength(font_collection)), pad),
       LAMBDA c :
  Bind(IF extended_metadata.len > 0
       THEN Compress(extended_metadata,
                     CompressedBufferSize(extended_metadata.len), pad)
       ELSE [ok |-> TRUE, out |-> MkMem(0, 0)], LAMBDA mc :
    IF ~c.ok \/ ~mc.ok THEN CollFail
    ELSE
      Bind(CollectionTables(font_collection,
                            KeysIn(font_collection, OutputOrderedTags),
                            c.out.len, <<>>, NoCells), LAMBDA t :
        IF ~t.ok THEN CollFail
        ELSE
          Bind(ComputeCollectionWoff2Length(font_collection, t.tables,
                 t.index_by_offset, mc.out.len), LAMBDA woff2_length :
          Bind([f \in 1 .. Len(font_collection.fonts) |->
                  FontTableIndices(font_collection, font_collection.fonts[f],
                                   TagsOf(font_collection.fonts[f]),
                                   t.index_by_offset)], LAMBDA indices :
            IF ResultTooSmall(woff2_length, result_length) THEN CollFail
            ELSE IF \E f \in 1 .. Len(indices) : indices[f] = <<-1>>
            THEN CollFail
            ELSE
              Bind(CollectionHeaderBytes(font_collection, t.tables,
                     woff2_length, c.out.len, mc.out.len,
                     extended_metadata.len)
                   \o ConcatAll([k \in 1 .. Len(t.tables) |->
                                   StoreTableEntry(t.tables[k])])
                   \o CollectionDirectoryBytes(font_collection, indices),
                   LAMBDA head :
              Bind(Round4(Len(head) + c.out.len), LAMBDA offset :
                IF woff2_length # offset + mc.out.len THEN CollFail
                ELSE
                  [done |-> TRUE, ok |-> TRUE,
                   out |-> CopyMem(
                             CopyMem(PutSeq(MkMem(woff2_length, 0), 0, head),
                                     Len(head), c.out, 0, c.out.len),
                             offset, mc.out, 0, mc.out.len),
                   transform_buf |-> transform_buf]))))))))

\* MaxWOFF2CompressedSize of woff2_compress, for the bytes of the collection
CollectionResultLength(font_collection, extended_metadata) ==
  MaxWOFF2CompressedSize(
    ComputeUncompressedCollectionLength(font_collection),
    extended_metadata.len)

CompressCollection ==
  /\ ~enc1.done
  /\ enc1' = EncodeFontCollection(ttf,
               CollectionResultLength(ttf, meta.text), meta.text, meta.pad)
  /\ UNCHANGED <<decvars, codecvars, stage, ttf, meta, norm1, dec1, enc2>>

InitTTC ==
  /\ \E n \in 2 .. MaxFonts, v \in HeaderVersions, bare \in BOOLEAN :
       \E origin \in Sharings(n) : ttf = MakeCollection(v, n, origin, bare)
  /\ meta \in [text : Metadata, pad : {0}, fill : {0}]
  /\ enc1 = NotYet
  /\ norm1 = 0 /\ dec1 = 0 /\ enc2 = 0
  /\ data = MkMem(0, 0)
  /\ dec = Idle(0, NewTable)
  /\ out = MkMem(0, 0)
  /\ stage = "ttc"
  /\ cin = 0 /\ cout = 0

NextTTC == CompressCollection

SpecTTC == InitTTC /\ [][NextTTC]_vars

----------------------------------------------------------------------------
(* Properties of the encoding of a collection *)

CollectionEncoded == enc1.done /\ enc1.ok

\* the tables of the collection that are not reused, in the order of the
\* fonts and, in a font, of the tags
DistinctTables(font_collection) ==
  SelectSeq(CollectionKeys(Len(font_collection.fonts)),
            LAMBDA key : ~IsReused(TableOf(font_collection, key)))

\* the table whose bytes the font uses for the tag
OriginOf(font_collection, f, tag) ==
  IF IsReused(font_collection.fonts[f].tables[tag])
  THEN font_collection.fonts[f].tables[tag].reuse_of
  ELSE [font |-> f, tag |-> tag]

\* the header, the directory and the collection directory of the file w, as
\* the decoder reads them
DirectoryRead(w) ==
  DecStep(DecStep(DecStep(
    DecInit(ComputeWOFF2FinalSize(w), 0, NewTable), w), w), w)

\* C13: when the encoding of a collection succeeds, the stream handed to
\* the compressor is the bytes of every table that is not reused, one after
\* the other and each once; the WOFF2 directory has one entry for each of
\* these tables; and the collection directory of every font holds, for each
\* of its tables, the index of the entry of the table whose bytes it uses
C13_SharedTablesOnce ==
  CollectionEncoded =>
    LET distinct == DistinctTables(ttf)
        dir == DirectoryRead(enc1.out)
    IN /\ dir.pc = "offsets"
       /\ Len(dir.tables) = Len(distinct)
       /\ enc1.transform_buf.len =
            SumSeq([k \in 1 .. Len(distinct) |->
                      TableOf(ttf, distinct[k]).length])
       /\ \A k \in 1 .. Len(distinct) :
            /\ dir.tables[k].tag = distinct[k].tag
            /\ dir.tables[k].transform_length =
                 TableOf(ttf, distinct[k]).length
            /\ SameBytes(
                 SliceMem(enc1.transform_buf, StreamStart(dir.tables, k),
                          dir.tables[k].transform_length),
                 TableOf(ttf, distinct[k]).data)
       /\ Len(dir.ttc_fonts) = Len(ttf.fonts)
       /\ \A f \in 1 .. Len(ttf.fonts) :
            /\ Len(dir.ttc_fonts[f].table_indices) = Len(CollectionTags)
            /\ \A j \in 1 .. Len(CollectionTags) :
                 distinct[dir.ttc_fonts[f].table_indices[j] + 1] =
                   OriginOf(ttf, f, CollectionTags[j])

\* a collection of three fonts is encoded whose third font shares a table
\* with the second and whose second font shares a table with the first
C13_SharedTablesEncoded ==
  /\ CollectionEncoded
  /\ Len(ttf.fonts) = 3
  /\ ttf.fonts[3].tables[kHeadTableTag].reuse_of.font = 2
  /\ ttf.fonts[2].tables[kCffTableTag].reuse_of.font = 1
  /\ ttf.fonts[3].tables[kNameTableTag].reuse_of.font = 0

----------------------------------------------------------------------------
(* The functions of the decoder, the normalizer and the font writer, each  *)
(* applied to one input                                                     *)

\* a font of num_tables tables of which none is looked at
FontOfTables(num_tables) ==
  [ok |-> TRUE, flavor |-> kTrueTypeFlavor, num_tables |-> num_tables,
   tables |-> NoCells]

SfntHeaderInputs ==
  {[kind |-> "header", num_tables |-> n] : n \in 1 .. Pow2(16) - 1}

\* searchRange, entrySelector and rangeShift in the 12 bytes of a header
HeaderFieldsIn(bytes) ==
  <<bytes[7] * 256 + bytes[8], bytes[9] * 256 + bytes[10],
    bytes[11] * 256 + bytes[12]>>

\* the header of a font of cin.num_tables tables: the fields that
\* ComputeHeaderChecksum of the normalizer adds up, the header that
\* WriteFont writes, and the header that StoreOffsetTable writes
StoreSfntHeaders ==
  /\ cin.kind = "header"
  /\ ~cout.done
  /\ cout' =
       Bind(kSfntHeaderSize + kSfntEntrySize * cin.num_tables, LAMBDA size :
         [done |-> TRUE,
          summed |-> <<SearchRange(cin.num_tables),
                       Log2Floor(cin.num_tables),
                       RangeShift(cin.num_tables)>>,
          checksum |-> ComputeHeaderChecksum(FontOfTables(cin.num_tables)),
          written |-> BytesAt(WriteFont(FontOfTables(cin.num_tables),
                                        MkMem(size, 0), size).mem, 0, 12),
          stored |-> OffsetTableBytes(kTrueTypeFlavor, cin.num_tables)])
  /\ UNCHANGED <<decvars, stage, ttf, meta, enc1, norm1, dec1, enc2, cin>>

\* one flag byte and the four bytes after it in the stream of the triplets
TripletBytes == {0, 1, 200}

OneTripletInputs ==
  {[kind |-> "sign", flag |-> f, bytes |-> b] :
     f \in 0 .. 255, b \in [1 .. 4 -> TripletBytes]}

\* TripletDecode of one point
DecodeOneTriplet ==
  /\ cin.kind = "sign"
  /\ ~cout.done
  /\ cout' = [done |-> TRUE,
              read |-> TripletDecode(FromSeq(<<cin.flag>>), 0,
                                     FromSeq(cin.bytes), 0, 4, 1)]
  /\ UNCHANGED <<decvars, stage, ttf, meta, enc1, norm1, dec1, enc2, cin>>

\* the points that StorePoints is given: up to one point of any delta,
\* then a run of points that all move by the same delta
RunLengths == {0, 2, 255, 256, 257, 513}

HeadDeltas == {0, 0 - 1, 255, 256, 0 - 256}

RunDeltas == {<<0, 0>>, <<1, 0>>, <<0 - 300, 5>>}

RoomyGlyph == Pow2(12)

RunOf(d, n) == [i \in 1 .. n |-> d]

StorePointsInputs ==
  {[kind |-> "points", head |-> h, run |-> r, run_length |-> n,
    dst_size |-> size] :
     h \in SeqsUpTo([dx : HeadDeltas, dy : HeadDeltas, on_curve : BOOLEAN], 1),
     r \in RunDeltas, n \in RunLengths,
     size \in {kEndPtsOfContoursOffset + 2 + 2 + 2, RoomyGlyph}}

PointsIn(in) ==
  Bind(PointsFrom(in.head, 0, 0), LAMBDA head :
  Bind(IF head = <<>> THEN [x |-> 0, y |-> 0] ELSE head[Len(head)],
       LAMBDA from :
    head \o [i \in 1 .. in.run_length |->
               [x |-> from.x + i * in.run[1], y |-> from.y + i * in.run[2],
                on_curve |-> TRUE]]))

\* StorePoints on a glyph of one contour and no instructions, at the
\* start of a buffer of cin.dst_size bytes
StoreSomePoints ==
  /\ cin.kind = "points"
  /\ ~cout.done
  /\ cout' = [done |-> TRUE,
              stored |-> StorePoints(PointsIn(cin), 1, 0,
                                     MkMem(cin.dst_size, 0), 0,
                                     cin.dst_size)]
  /\ UNCHANGED <<decvars, stage, ttf, meta, enc1, norm1, dec1, enc2, cin>>

\* a font of a head table and a CFF table in either order, the second
\* of them followed by trailing bytes of padding, which may be too few
HeadLengths == {12, 13, 16}

MaxCffLength == 6

TableBody(length) == [i \in 1 .. length |-> (i * 17) % 256]

Padded(body, pad) == body \o [i \in 1 .. pad |-> 0]

TwoTableFont(head_first, head_length, cff_length, trailing) ==
  Bind(kSfntHeaderSize + 2 * kSfntEntrySize, LAMBDA first :
  Bind(IF head_first THEN head_length ELSE cff_length, LAMBDA length1 :
  Bind(IF head_first THEN cff_length ELSE head_length, LAMBDA length2 :
  Bind(first + Round4(length1), LAMBDA second :
    SfntRaw(kOttoFlavor,
            <<<<kCffTableTag, IF head_first THEN second ELSE first,
                cff_length>>,
              <<kHeadTableTag, IF head_first THEN first ELSE second,
                head_length>>>>,
            Padded(TableBody(length1), PaddingSize(length1))
              \o Padded(TableBody(length2), trailing))))))

NormalizeInputs ==
  {[kind |-> "sfnt",
    font |-> TwoTableFont(head_first, head_length, cff_length, trailing)] :
     head_first \in BOOLEAN, head_length \in HeadLengths,
     cff_length \in 1 .. MaxCffLength, trailing \in 0 .. 3}

\* the positions that memcpy(buf, table->data, sz) of MakeEditableBuffer
\* reads
MakeEditableReads(font, tableTag) ==
  IF ~HasTable(font, tableTag) THEN {}
  ELSE font.tables[tableTag].at ..
         font.tables[tableTag].at + Round4(font.tables[tableTag].length) - 1

\* the positions buf[i] .. buf[i + 3] that ComputeChecksum reads
ChecksumReads(at, size) == at .. at + 4 * ((size + 3) \div 4) - 1

\* the positions of the input d that NormalizeFont reads: the copy of head,
\* and the checksums of the tables whose bytes are still those of d
InputReads(d, font, normalized) ==
  MakeEditableReads(font, kHeadTableTag)
    \cup UNION {ChecksumReads(normalized.tables[t].at,
                              normalized.tables[t].length) :
                  t \in {u \in DOMAIN normalized.tables :
                           normalized.tables[u].data = d}}

\* ReadFont and then NormalizeFont on cin.font
NormalizeOneFont ==
  /\ cin.kind = "sfnt"
  /\ ~cout.done
  /\ cout' = Bind(ReadFont(cin.font), LAMBDA font :
             Bind(Then(font, LAMBDA f : NormalizeFont(f)), LAMBDA normalized :
               [done |-> TRUE, accepted |-> font.ok, ok |-> normalized.ok,
                reads |-> IF normalized.ok
                          THEN InputReads(cin.font, font, normalized)
                          ELSE {}]))
  /\ UNCHANGED <<decvars, stage, ttf, meta, enc1, norm1, dec1, enc2, cin>>

UnitInputs ==
  SfntHeaderInputs \cup OneTripletInputs \cup StorePointsInputs
    \cup NormalizeInputs

InitUnits ==
  /\ cin \in UnitInputs
  /\ cout = NotRun
  /\ data = MkMem(0, 0)
  /\ dec = Idle(0, NewTable)
  /\ out = MkMem(0, 0)
  /\ stage = "units"
  /\ ttf = 0 /\ meta = 0 /\ enc1 = 0 /\ norm1 = 0 /\ dec1 = 0 /\ enc2 = 0

NextUnits ==
  \/ StoreSfntHeaders
  \/ DecodeOneTriplet
  \/ StoreSomePoints
  \/ NormalizeOneFont

SpecUnits == InitUnits /\ [][NextUnits]_vars

----------------------------------------------------------------------------
(* Properties of the sfnt header *)

SfntHeadersStored == cin.kind = "header" /\ cout.done

\* the largest e with 2^e <= n
FloorLog2(n) == CHOOSE e \in 0 .. 15 : Pow2(e) <= n /\ n < Pow2(e + 1)

\* entrySelector = floor(log2(num_tables)), searchRange = 2^entrySelector * 16
\* and rangeShift = 16 * num_tables - searchRange, in the 16 bits that each
\* field of the header has
HeaderFieldsOf(num_tables) ==
  <<(Pow2(FloorLog2(num_tables)) * 16) % 65536, FloorLog2(num_tables),
    (16 * num_tables - Pow2(FloorLog2(num_tables)) * 16) % 65536>>

\* C21: for every num_tables >= 1 the fields that the normalizer sums, the
\* fields that WriteFont writes and the fields that StoreOffsetTable writes
\* are the same, and they are <<searchRange, entrySelector, rangeShift>> as
\* defined from floor(log2(num_tables))
C21_SameHeaderFields ==
  SfntHeadersStored =>
    /\ cout.summed = HeaderFieldsOf(cin.num_tables)
    /\ HeaderFieldsIn(cout.written) = HeaderFieldsOf(cin.num_tables)
    /\ HeaderFieldsIn(cout.stored) = HeaderFieldsOf(cin.num_tables)

\* What the code keeps: the normalizer and WriteFont always agree with each
\* other, the decoder always writes the defined fields, and from two tables
\* on all three agree
C21_FromTwoTables ==
  SfntHeadersStored =>
    /\ cout.summed = HeaderFieldsIn(cout.written)
    /\ HeaderFieldsIn(cout.stored) = HeaderFieldsOf(cin.num_tables)
    /\ cin.num_tables >= 2 => HeaderFieldsIn(cout.stored) = cout.summed

\* With one table the normalizer and WriteFont have searchRange 0 and
\* rangeShift 16, the decoder searchRange 16 and rangeShift 0
C21_OneTable ==
  (SfntHeadersStored /\ cin.num_tables = 1) =>
    /\ cout.summed = <<0, 0, 16>>
    /\ HeaderFieldsIn(cout.written) = <<0, 0, 16>>
    /\ HeaderFieldsIn(cout.stored) = <<16, 0, 0>>

----------------------------------------------------------------------------
(* Properties of the signs of the triplets *)

OneTripletRead == cin.kind = "sign" /\ cout.done /\ cout.read.ok

\* v has the sign that the bit gives: set for +baseval, clear for -baseval
SignedBy(bit, v) == IF bit = 1 THEN v >= 0 ELSE v <= 0

\* the flag of the point without the bit for off-curve
FlagOf(byte) == byte % 128

\* C22, as the specification states it: for every flag in 0..127 the sign
\* of dx is bit 0 of the flag and the sign of dy is bit 1 of the flag
C22_SignBits ==
  OneTripletRead =>
    /\ SignedBy(FlagOf(cin.flag) % 2, cout.read.points[1].x)
    /\ SignedBy((FlagOf(cin.flag) \div 2) % 2, cout.read.points[1].y)

\* C22, as TripletDecode has it: below 10 dx is 0 and the sign of dy is
\* bit 0 of the flag; from 10 to 19 dy is 0 and the sign of dx is bit 0;
\* from 20 on the sign of dx is bit 0 and the sign of dy is bit 1
C22_SignBitsByRange ==
  OneTripletRead =>
    LET flag == FlagOf(cin.flag)
        dx == cout.read.points[1].x
        dy == cout.read.points[1].y
    IN IF flag < 10 THEN dx = 0 /\ SignedBy(flag % 2, dy)
       ELSE IF flag < 20 THEN dy = 0 /\ SignedBy(flag % 2, dx)
       ELSE SignedBy(flag % 2, dx) /\ SignedBy((flag \div 2) % 2, dy)

\* a flag below 10 with bit 0 set and bit 1 clear gives a dy above 0
C22_UpwardsByFirstBit ==
  /\ OneTripletRead
  /\ FlagOf(cin.flag) = 5
  /\ cout.read.points[1].y > 0

\* a flag from 20 on with bit 0 clear and bit 1 set moves left and up
C22_LeftAndUp ==
  /\ OneTripletRead
  /\ FlagOf(cin.flag) >= 20
  /\ cout.read.points[1].x < 0
  /\ cout.read.points[1].y > 0

PointsStored == cin.kind = "points" /\ cout.done /\ cout.stored.ok

\* where the flags of a glyph of one contour and no instructions start
FlagsStart == kEndPtsOfContoursOffset + 2 + 2

\* the flag bytes of n points read back from pos on: each flag as often as
\* its repeat count says, without the repeat bit, and the counts met
RECURSIVE ReadFlags(_, _, _)
ReadFlags(mem, pos, n) ==
  IF n <= 0 THEN [flags |-> <<>>, counts |-> <<>>, pos |-> pos]
  ELSE LET b == ByteAt(mem, pos)
           rep == HasBit(b, 3)
           count == IF rep THEN ByteAt(mem, pos + 1) ELSE 0
           rest == ReadFlags(mem, pos + (IF rep THEN 2 ELSE 1), n - 1 - count)
       IN [flags |-> RunOf(IF rep THEN b - kGlyfRepeat ELSE b, count + 1)
                       \o rest.flags,
           counts |-> (IF rep THEN <<count>> ELSE <<>>) \o rest.counts,
           pos |-> rest.pos]

AbsOf(d) == IF d < 0 THEN 0 - d ELSE d

\* the bytes of one delta: none, its magnitude, or a big-endian short
BytesOfDelta(d) ==
  IF d = 0 THEN <<>>
  ELSE IF AbsOf(d) < 256 THEN <<AbsOf(d)>>
  ELSE <<((d + Pow2(16)) % Pow2(16)) \div 256, (d + Pow2(16)) % 256>>

\* what a flag says of one delta: short and same-or-positive
FlagTells(flag, short_bit, same_bit, d) ==
  IF d = 0 THEN ~HasBit(flag, short_bit) /\ HasBit(flag, same_bit)
  ELSE IF AbsOf(d) < 256
  THEN HasBit(flag, short_bit) /\ (HasBit(flag, same_bit) <=> d > 0)
  ELSE ~HasBit(flag, short_bit) /\ ~HasBit(flag, same_bit)

DeltaX(points, i) == points[i].x - (IF i = 1 THEN 0 ELSE points[i - 1].x)

DeltaY(points, i) == points[i].y - (IF i = 1 THEN 0 ELSE points[i - 1].y)

\* C24: the flag bytes that StorePoints writes give, with the repeat runs
\* expanded, one flag per point in the order of the points; every repeat
\* count is between 1 and 255; a delta of 0 takes no byte, a delta of
\* magnitude below 256 one byte holding the magnitude with its sign in the
\* flag, any other delta two big-endian bytes; and the glyph size is where
\* the y bytes end, after the flag bytes and the x bytes.
C24_FlagsAndCoordinates ==
  PointsStored =>
    LET points == PointsIn(cin)
        n == Len(points)
        mem == cout.stored.mem
        read == ReadFlags(mem, FlagsStart, n)
        xs == ConcatRange([i \in 1 .. n |-> BytesOfDelta(DeltaX(points, i))],
                          1, n)
        ys == ConcatRange([i \in 1 .. n |-> BytesOfDelta(DeltaY(points, i))],
                          1, n)
    IN /\ Len(read.flags) = n
       /\ \A i \in 1 .. n :
            /\ read.flags[i] < Pow2(6)
            /\ HasBit(read.flags[i], 0) <=> points[i].on_curve
            /\ FlagTells(read.flags[i], 1, 4, DeltaX(points, i))
            /\ FlagTells(read.flags[i], 2, 5, DeltaY(points, i))
       /\ \A k \in 1 .. Len(read.counts) : read.counts[k] \in 1 .. 255
       /\ BytesAt(mem, read.pos, Len(xs) + Len(ys)) = xs \o ys
       /\ cout.stored.glyph_size = read.pos + Len(xs) + Len(ys)

\* a run of more than 256 equal flags, of deltas of two bytes and of one
C24_LongRunStored ==
  /\ PointsStored
  /\ cin.run_length = 257
  /\ cin.run = <<0 - 300, 5>>
  /\ cin.head # <<>>
  /\ ReadFlags(cout.stored.mem, FlagsStart, Len(PointsIn(cin))).counts = <<255>>

FontNormalized == cin.kind = "sfnt" /\ cout.done /\ cout.accepted /\ cout.ok

\* C29: for a font that ReadFont accepts from an input of len bytes,
\* NormalizeFont reads the input only at positions below len: neither the
\* copy of the head table nor the checksums of the tables read past the end
\* of the input, also when the length of a table is no multiple of 4 and the
\* table ends where the input ends.
C29_ReadsWithinInput ==
  FontNormalized => \A p \in cout.reads : p < cin.font.len

\* an input that ends with the padding of its last table is read within
\* its bytes
C29_ReadsWithinPaddedInput ==
  (FontNormalized /\ cin.font.len % 4 = 0) =>
    \A p \in cout.reads : p < cin.font.len

\* the input ends with a table of a length that is no multiple of 4, and
\* the normalizer has read past its end
C29_ReadPastUnpaddedTable ==
  /\ FontNormalized
  /\ cin.font.len % 4 # 0
  /\ \E p \in cout.reads : p >= cin.font.len

----------------------------------------------------------------------------
(* The glyf transform of the Java writer on glyphs of all three kinds, and *)
(* the glyph loop of ReconstructGlyf on what it wrote, glyph by glyph       *)

FLAG_ARG_1_AND_2_ARE_WORDS == Pow2(0)
FLAG_WE_HAVE_A_SCALE == Pow2(3)
FLAG_MORE_COMPONENTS == Pow2(5)
FLAG_WE_HAVE_INSTRUCTIONS == Pow2(8)

\* one component as writeCompositeGlyph writes it
ComponentBytes(c) ==
  WriteUShort(c.flags) \o WriteUShort(c.glyphIndex)
  \o (IF BitAnd(c.flags, FLAG_ARG_1_AND_2_ARE_WORDS) = 0
      THEN <<c.argument1 % 256, c.argument2 % 256>>
      ELSE WriteUShort(c.argument1) \o WriteUShort(c.argument2))
  \o c.transformation

\* the loop of writeCompositeGlyph: haveInstructions is assigned for every
\* component
RECURSIVE WriteComponents(_, _, _)
WriteComponents(components, i, haveInstructions) ==
  IF i > Len(components)
  THEN [bytes |-> <<>>, haveInstructions |-> haveInstructions]
  ELSE
    Bind(WriteComponents(components, i + 1,
           BitAnd(components[i].flags, FLAG_WE_HAVE_INSTRUCTIONS) # 0),
         LAMBDA rest :
      [bytes |-> ComponentBytes(components[i]) \o rest.bytes,
       haveInstructions |-> rest.haveInstructions])

\* writeInstructions, with the options reslice and code
WriteInstructions(st, glyph) ==
  [st EXCEPT
     !.glyfStream = @ \o Write255UShort(glyph.instructions.len),
     !.codeStream = IF glyph.instructions.len > 0
                    THEN Append(@, glyph.instructions) ELSE @]

\* writeCompositeGlyph, with the option reslice and without cbbox
WriteCompositeGlyph(st, glyph) ==
  Bind(WriteComponents(glyph.components, 1, FALSE), LAMBDA w :
  Bind([st EXCEPT !.nContourStream = @ \o WriteUShort(65535),
                  !.compositeStream = @ \o w.bytes], LAMBDA st1 :
    IF w.haveInstructions THEN WriteInstructions(st1, glyph) ELSE st1))

\* writeGlyph, for a glyph that is null, simple or composite
WriteGlyphOfKind(st, glyph) ==
  IF glyph.dataLength = 0
  THEN [st EXCEPT !.nContourStream = @ \o WriteUShort(0)]
  ELSE IF glyph.components = <<>> THEN WriteSimpleGlyph(st, glyph)
  ELSE WriteCompositeGlyph(st, glyph)

\* encode, the loop over the glyphs, up to glyph n
RECURSIVE EncodeGlyphList(_, _, _)
EncodeGlyphList(glyphs, n, st) ==
  IF n = 0 THEN st
  ELSE WriteGlyphOfKind(EncodeGlyphList(glyphs, n - 1, st), glyphs[n])

CodeStreamSize(st) ==
  SumSeq([k \in 1 .. Len(st.codeStream) |-> st.codeStream[k].len])

\* getGlyfBytes, with the option reslice
GetGlyfBytes(nGlyphs, indexFmt, st) ==
  MemCatAll(
    <<FromSeq(U32Bytes(0) \o WriteUShort(nGlyphs) \o WriteUShort(indexFmt)
              \o U32Bytes(Len(st.nContourStream))
              \o U32Bytes(Len(st.nPointsStream))
              \o U32Bytes(Len(st.flagBytesStream))
              \o U32Bytes(Len(st.glyfStream))
              \o U32Bytes(Len(st.compositeStream))
              \o U32Bytes(BboxBitmapLength(nGlyphs) + Len(st.bboxStream))
              \o U32Bytes(CodeStreamSize(st))
              \o st.nContourStream \o st.nPointsStream \o st.flagBytesStream
              \o st.glyfStream \o st.compositeStream
              \o [k \in 1 .. BboxBitmapLength(nGlyphs) |-> 0]
              \o st.bboxStream)>>
    \o st.codeStream)

\* the glyphs that the writer is given
GlyphNull ==
  [contours |-> <<>>, instructions |-> MkMem(0, 0), components |-> <<>>,
   dataLength |-> 0]

SimpleGlyphOf(points, code_size) ==
  [contours |-> <<points>>, instructions |-> MkMem(code_size, 0),
   components |-> <<>>, dataLength |-> 1]

ComponentOf(flags, more) ==
  [flags |-> flags + (IF more THEN FLAG_MORE_COMPONENTS ELSE 0),
   glyphIndex |-> 1, argument1 |-> 3, argument2 |-> 4,
   transformation |-> IF BitAnd(flags, FLAG_WE_HAVE_A_SCALE) # 0
                      THEN <<64, 0>> ELSE <<>>]

\* a composite glyph of components with the given flags; it has code_size
\* bytes of instructions, which follow the last component in the font when
\* that component says so
CompositeGlyphOf(flags, code_size) ==
  [contours |-> <<>>, instructions |-> MkMem(code_size, 0),
   components |-> [k \in 1 .. Len(flags) |->
                     ComponentOf(flags[k], k < Len(flags))],
   dataLength |-> 1]

PointAt(x, y, on_curve) == [x |-> x, y |-> y, on_curve |-> on_curve]

\* a glyph whose instructions make it 65540 bytes long: two of them do not
\* fit the short form of loca
BigCode == 65540 - 18

GlyphPool ==
  {GlyphNull,
   SimpleGlyphOf(<<PointAt(100, 0, TRUE), PointAt(100, 200, FALSE)>>, 0),
   SimpleGlyphOf(<<PointAt(0 - 300, 5, TRUE)>>, 3),
   SimpleGlyphOf(<<PointAt(100, 0, TRUE), PointAt(100, 200, FALSE)>>,
                 BigCode),
   CompositeGlyphOf(<<FLAG_ARG_1_AND_2_ARE_WORDS>>, 0),
   CompositeGlyphOf(<<FLAG_WE_HAVE_A_SCALE, FLAG_WE_HAVE_INSTRUCTIONS>>, 2),
   CompositeGlyphOf(<<FLAG_WE_HAVE_INSTRUCTIONS, 0>>, 0)}

MaxGlyphs == 3

GlyphSeqs == SeqsUpTo(GlyphPool, MaxGlyphs)

\* the streams of a transformed table, as ReconstructGlyf cuts them
StreamsOf(tbuf) ==
  Bind(SubStreams(tbuf, 0, tbuf.len, 0, 36), LAMBDA ss :
    [n_contour |-> ss.streams[1], n_points |-> ss.streams[2],
     flag |-> ss.streams[3], glyph |-> ss.streams[4],
     composite |-> ss.streams[5], bbox |-> ss.streams[6],
     instruction |-> ss.streams[7]])

\* the size that the glyphs take in the rebuilt glyf table
RoomyGlyfSize == 4 * 65540

GlyfSizeOf(tbuf, num_glyphs) ==
  GlyphLoop(StreamsOf(tbuf), GlyphStart(MkMem(RoomyGlyfSize, 0)), 0,
            num_glyphs, 0, RoomyGlyfSize).loca_offset

\* the writer's table for the glyphs, and the sizes of glyf and loca that
\* the directory gives the decoder: glyf has the bytes that the glyphs
\* need, less short bytes
ReconInput(glyphs, indexFmt, short) ==
  Bind(GetGlyfBytes(Len(glyphs), indexFmt,
                    EncodeGlyphList(glyphs, Len(glyphs), NoStreams)),
       LAMBDA tbuf :
  Bind(GlyfSizeOf(tbuf, Len(glyphs)), LAMBDA size :
    [kind |-> "glyf", glyphs |-> glyphs, index_format |-> indexFmt,
     tbuf |-> tbuf,
     dst_size |-> IF size >= short THEN size - short ELSE size,
     loca_size |-> (Len(glyphs) + 1) * (IF indexFmt = 0 THEN 2 ELSE 4)]))

\* the output of the decoder: glyf at 0, loca after it
ReconOutput(in) == MkMem(in.dst_size + in.loca_size, 0)

\* ReconstructGlyf up to the glyph loop
ReadGlyfHeader ==
  /\ cout.pc = "header"
  /\ cout' = IF cin.tbuf.len < 36
                \/ ~SubStreams(cin.tbuf, 0, cin.tbuf.len, 0, 36).ok
             THEN [pc |-> "done", ok |-> FALSE, i |-> 0, sizes |-> <<>>,
                   g |-> GlyphStart(ReconOutput(cin))]
             ELSE [pc |-> "glyphs", ok |-> TRUE, i |-> 0, sizes |-> <<>>,
                   g |-> GlyphStart(ReconOutput(cin))]
  /\ UNCHANGED <<decvars, stage, ttf, meta, enc1, norm1, dec1, enc2, cin>>

\* one turn of the glyph loop of ReconstructGlyf; sizes keeps the glyph_size
\* of every turn
ReconstructOneGlyph ==
  /\ cout.pc = "glyphs"
  /\ cout.i < U16At(cin.tbuf, 4)
  /\ cout' = Bind(GlyphLoop(StreamsOf(cin.tbuf), cout.g, cout.i, cout.i + 1,
                            0, cin.dst_size), LAMBDA g :
               [pc |-> IF g.ok THEN "glyphs" ELSE "done", ok |-> g.ok,
                i |-> cout.i + 1, sizes |-> Append(cout.sizes, g.glyph_size),
                g |-> g])
  /\ UNCHANGED <<decvars, stage, ttf, meta, enc1, norm1, dec1, enc2, cin>>

\* the end of ReconstructGlyf: the bounding boxes and loca
StoreBboxAndLoca ==
  /\ cout.pc = "glyphs"
  /\ cout.i >= U16At(cin.tbuf, 4)
  /\ cout' = Bind(ReconstructGlyf(cin.tbuf, 0, cin.tbuf.len, ReconOutput(cin),
                                  0, cin.dst_size, cin.dst_size,
                                  cin.loca_size), LAMBDA r :
               [pc |-> "done", ok |-> r.ok, i |-> cout.i,
                sizes |-> cout.sizes,
                g |-> [cout.g EXCEPT
                         !.mem = r.mem,
                         !.loca_values = Append(@, cout.g.loca_offset)]])
  /\ UNCHANGED <<decvars, stage, ttf, meta, enc1, norm1, dec1, enc2, cin>>

InitRecon ==
  /\ \E glyphs \in GlyphSeqs, indexFmt \in {0, 1}, short \in {0, 4} :
       cin = ReconInput(glyphs, indexFmt, short)
  /\ cout = [pc |-> "header"]
  /\ data = MkMem(0, 0)
  /\ dec = Idle(0, NewTable)
  /\ out = MkMem(0, 0)
  /\ stage = "recon"
  /\ ttf = 0 /\ meta = 0 /\ enc1 = 0 /\ norm1 = 0 /\ dec1 = 0 /\ enc2 = 0

NextRecon ==
  \/ ReadGlyfHeader
  \/ ReconstructOneGlyph
  \/ StoreBboxAndLoca

SpecRecon == InitRecon /\ [][NextRecon]_vars

----------------------------------------------------------------------------
(* Properties of the glyph loop of ReconstructGlyf *)

InGlyphLoop == cin.kind = "glyf" /\ cout.pc \in {"glyphs", "done"}

GlyfReconstructed == cin.kind = "glyf" /\ cout.pc = "done" /\ cout.ok

\* C23: throughout ReconstructGlyf the running offset into glyf is a
\* multiple of 4 and at most dst_size; on success loca_values starts at 0,
\* never decreases, and each of its steps is the size of the glyph rounded
\* up to a multiple of 4, which is 0 for an empty glyph
C23_RunningOffset ==
  /\ InGlyphLoop =>
       /\ cout.g.loca_offset % 4 = 0
       /\ cout.g.loca_offset <= cin.dst_size
  /\ GlyfReconstructed =>
       LET loca_values == cout.g.loca_values IN
       /\ Len(loca_values) = Len(cin.glyphs) + 1
       /\ loca_values[1] = 0
       /\ \A i \in 1 .. Len(cin.glyphs) :
            /\ loca_values[i] <= loca_values[i + 1]
            /\ loca_values[i + 1] - loca_values[i] =
                 ((cout.sizes[i] + 3) \div 4) * 4
            /\ cin.glyphs[i].dataLength = 0 =>
                 loca_values[i + 1] = loca_values[i]

\* a glyph of 23 bytes between an empty glyph and a composite one
C23_UnevenGlyphStored ==
  /\ GlyfReconstructed
  /\ Len(cin.glyphs) = 3
  /\ cout.sizes[1] = 0
  /\ cout.sizes[2] % 4 # 0
  /\ cout.g.loca_values[4] > cout.g.loca_values[3]

\* the loop gives up at a glyph for which glyf has no room
C23_NoRoomForGlyph ==
  /\ cin.kind = "glyf" /\ cout.pc = "done" /\ ~cout.ok
  /\ cout.i = 2

HasInstructionsFlag(component) ==
  BitAnd(component.flags, FLAG_WE_HAVE_INSTRUCTIONS) # 0

AnyComponentHasInstructions(glyph) ==
  \E k \in 1 .. Len(glyph.components) :
    HasInstructionsFlag(glyph.components[k])

LastComponentHasInstructions(glyph) ==
  HasInstructionsFlag(glyph.components[Len(glyph.components)])

\* the streams of the writer after the first n glyphs
WrittenUpTo(n) == EncodeGlyphList(cin.glyphs, n, NoStreams)

\* the loop has just done a composite glyph
CompositeGlyphDone ==
  /\ InGlyphLoop
  /\ cout.i >= 1
  /\ cin.glyphs[cout.i].dataLength # 0
  /\ cin.glyphs[cout.i].components # <<>>

\* the writer put an instruction size into glyphStream for glyph n
WroteInstructionSize(n) ==
  Len(WrittenUpTo(n).glyfStream) > Len(WrittenUpTo(n - 1).glyfStream)

\* reader and writer are at the same place in glyphStream and in
\* instructionStream
SamePositions ==
  /\ cout.g.gl_off = Len(WrittenUpTo(cout.i).glyfStream)
  /\ cout.g.in_off = CodeStreamSize(WrittenUpTo(cout.i))

\* C25: for a composite glyph the transform writes an instruction size to
\* glyphStream and the instructions to instructionStream exactly when some
\* component of the glyph has WE_HAVE_INSTRUCTIONS, and so the decoder,
\* which reads them under that condition, is where the writer is in both
\* streams after every composite glyph.
C25_InstructionsOfComposite ==
  CompositeGlyphDone =>
    /\ WroteInstructionSize(cout.i) <=>
         AnyComponentHasInstructions(cin.glyphs[cout.i])
    /\ cout.ok => SamePositions

\* what the writer does: the flag of the last component decides
C25_LastComponentDecides ==
  CompositeGlyphDone =>
    /\ WroteInstructionSize(cout.i) <=>
         LastComponentHasInstructions(cin.glyphs[cout.i])
    /\ (cout.ok /\ \A n \in 1 .. cout.i :
          cin.glyphs[n].components # <<>> =>
            (AnyComponentHasInstructions(cin.glyphs[n])
               <=> LastComponentHasInstructions(cin.glyphs[n])))
         => SamePositions

\* the decoder has gone past a composite glyph whose first component alone
\* has the flag
C25_FlagOnFirstComponentOnly ==
  /\ CompositeGlyphDone
  /\ cout.ok
  /\ AnyComponentHasInstructions(cin.glyphs[cout.i])
  /\ ~LastComponentHasInstructions(cin.glyphs[cout.i])
  /\ ~SamePositions

\* the entry of glyph i in the loca that the decoder wrote after glyf
ShortLocaEntry(i) == U16At(cout.g.mem, cin.dst_size + 2 * (i - 1))

ShortLocaWritten == GlyfReconstructed /\ cin.index_format = 0

\* C30: with index format 0 a glyf reconstruction that succeeds has
\* written short loca entries that stand for the offsets of the glyphs:
\* every loca value halved is below 65536 and every entry doubled is the
\* offset of its glyph in glyf; a glyf too long for that fails.
C30_ShortLocaEntries ==
  ShortLocaWritten =>
    \A i \in 1 .. Len(cout.g.loca_values) :
      /\ cout.g.loca_values[i] \div 2 < Pow2(16)
      /\ ShortLocaEntry(i) * 2 = cout.g.loca_values[i]

\* the entries are the offsets as long as glyf is shorter than 131072 bytes
C30_ShortLocaOfSmallGlyf ==
  (ShortLocaWritten /\ cout.g.loca_offset < Pow2(17)) =>
    \A i \in 1 .. Len(cout.g.loca_values) :
      ShortLocaEntry(i) * 2 = cout.g.loca_values[i]

\* a glyf of two glyphs of 65540 bytes, reconstructed with short loca
C30_LongGlyfShortLoca ==
  /\ ShortLocaWritten
  /\ cout.g.loca_values = <<0, 65540, 2 * 65540>>
  /\ ShortLocaEntry(3) = 4

-----------------------------------------------------------------------------
(* The Buffer class: every sequence of its read and skip operations on a   *)
(* buffer of some length                                                    *)

MaxBufferLen == 9

\* the bytes that a Buffer views
BufferData(len) == FromSeq([i \in 1 .. len |-> (i * 37) % 256])

\* the whole length of the view, whatever the offset
WholeLength(b) == b.len

\* remaining_length(): the size of buffer_.subspan(offset_)
RemainingLength(b) == b.len - b.offset

\* a read of width bytes at the offset: the bytes buffer_[offset_ + k]
ReadWidth(b, width) ==
  IF width > RemainingLength(b)
  THEN [ok |-> FALSE, bytes |-> <<>>, offset |-> b.offset, touched |-> {}]
  ELSE [ok |-> TRUE, bytes |-> BytesAt(BufferData(b.len), b.offset, width),
        offset |-> b.offset + width,
        touched |-> b.offset .. b.offset + width - 1]

\* Read(data, n_bytes), data being a span of data_size bytes
BufferRead(b, data_size, n_bytes) ==
  IF n_bytes > 1024 * 1024 * 1024
  THEN [ok |-> FALSE, bytes |-> <<>>, offset |-> b.offset, touched |-> {}]
  ELSE IF n_bytes > RemainingLength(b)
  THEN [ok |-> FALSE, bytes |-> <<>>, offset |-> b.offset, touched |-> {}]
  ELSE IF data_size # 0
  THEN [ok |-> TRUE, bytes |-> BytesAt(BufferData(b.len), b.offset, n_bytes),
        offset |-> b.offset + n_bytes,
        touched |-> b.offset .. b.offset + n_bytes - 1]
  ELSE [ok |-> TRUE, bytes |-> <<>>, offset |-> b.offset + n_bytes,
        touched |-> {}]

\* the numbers of bytes asked of Read and Skip
ByteCounts == 0 .. MaxBufferLen + 1 \cup {1024 * 1024 * 1024 + 1}

\* the buffer after an operation, with what the operation did
AfterOp(op, needed, r, value) ==
  [len |-> cout.len, offset |-> r.offset, op |-> op, needed |-> needed,
   before |-> cout.offset, ok |-> r.ok, touched |-> r.touched,
   value |-> IF r.ok THEN value ELSE <<>>]

BufferUnchanged ==
  UNCHANGED <<decvars, stage, ttf, meta, enc1, norm1, dec1, enc2, cin>>

Reversed(s) == [i \in 1 .. Len(s) |-> s[Len(s) + 1 - i]]

Skip ==
  /\ cin.kind = "buffer"
  /\ \E n_bytes \in ByteCounts :
       cout' = Bind(BufferRead(cout, 0, n_bytes), LAMBDA r :
                 AfterOp("Skip", n_bytes, r, r.bytes))
  /\ BufferUnchanged

Read ==
  /\ cin.kind = "buffer"
  /\ \E n_bytes \in ByteCounts :
       cout' = Bind(BufferRead(cout, n_bytes, n_bytes), LAMBDA r :
                 AfterOp("Read", n_bytes, r, r.bytes))
  /\ BufferUnchanged

ReadU8 ==
  /\ cin.kind = "buffer"
  /\ cout' = Bind(ReadWidth(cout, 1), LAMBDA r : AfterOp("ReadU8", 1, r, r.bytes))
  /\ BufferUnchanged

ReadU16 ==
  /\ cin.kind = "buffer"
  /\ cout' = Bind(ReadWidth(cout, 2), LAMBDA r : AfterOp("ReadU16", 2, r, r.bytes))
  /\ BufferUnchanged

ReadU24 ==
  /\ cin.kind = "buffer"
  /\ cout' = Bind(ReadWidth(cout, 3), LAMBDA r : AfterOp("ReadU24", 3, r, r.bytes))
  /\ BufferUnchanged

ReadU32 ==
  /\ cin.kind = "buffer"
  /\ cout' = Bind(ReadWidth(cout, 4), LAMBDA r : AfterOp("ReadU32", 4, r, r.bytes))
  /\ BufferUnchanged

\* the tag has its first byte lowest
ReadTag ==
  /\ cin.kind = "buffer"
  /\ cout' = Bind(ReadWidth(cout, 4), LAMBDA r :
               AfterOp("ReadTag", 4, r, Reversed(r.bytes)))
  /\ BufferUnchanged

ReadR64 ==
  /\ cin.kind = "buffer"
  /\ cout' = Bind(ReadWidth(cout, 8), LAMBDA r : AfterOp("ReadR64", 8, r, r.bytes))
  /\ BufferUnchanged

InitBuffer ==
  /\ cin \in {[kind |-> "buffer", len |-> n] : n \in 0 .. MaxBufferLen}
  /\ cout = [len |-> cin.len, offset |-> 0, op |-> "new", needed |-> 0,
             before |-> 0, ok |-> TRUE, touched |-> {}, value |-> <<>>]
  /\ data = MkMem(0, 0)
  /\ dec = Idle(0, NewTable)
  /\ out = MkMem(0, 0)
  /\ stage = "buffer"
  /\ ttf = 0 /\ meta = 0 /\ enc1 = 0 /\ norm1 = 0 /\ dec1 = 0 /\ enc2 = 0

NextBuffer ==
  \/ Skip
  \/ Read
  \/ ReadU8
  \/ ReadU16
  \/ ReadU24
  \/ ReadU32
  \/ ReadTag
  \/ ReadR64

SpecBuffer == InitBuffer /\ [][NextBuffer]_vars

\* C26: after any sequence of the read and skip operations on a buffer of
\* length n the offset is between 0 and n; an operation that needs more
\* bytes than remain fails and reads no byte at an index of n or more; and
\* an operation that succeeds moves the offset on by the number of its
\* bytes.
C26_OffsetWithinBuffer ==
  cin.kind = "buffer" =>
    /\ 0 <= cout.offset /\ cout.offset <= cin.len
    /\ \A i \in cout.touched : 0 <= i /\ i < cin.len
    /\ cout.op # "new" =>
         /\ cout.needed > cin.len - cout.before =>
              ~cout.ok /\ cout.touched = {} /\ cout.offset = cout.before
         /\ cout.ok => /\ cout.offset = cout.before + cout.needed
                       /\ cout.op # "Skip" =>
                            cout.touched = cout.before .. cout.offset - 1
         /\ ~cout.ok => cout.offset = cout.before

\* a read that fails two bytes before the end, after reads that went well
C26_ShortReadRefused ==
  /\ cin.kind = "buffer"
  /\ cout.op = "ReadU32"
  /\ ~cout.ok
  /\ cout.before > 0
  /\ cin.len - cout.before = 2

-----------------------------------------------------------------------------
(* Termination: the loop of ProcessComposite, turn by turn, on composite  *)
(* streams that end with or without a last component                       *)

FLAG_WE_HAVE_AN_X_AND_Y_SCALE == Pow2(6)
FLAG_WE_HAVE_A_TWO_BY_TWO == Pow2(7)

MaxComponents == 3

\* the flags of the components of the streams
ComponentFlags ==
  {0, FLAG_ARG_1_AND_2_ARE_WORDS, FLAG_WE_HAVE_A_SCALE,
   FLAG_WE_HAVE_AN_X_AND_Y_SCALE, FLAG_WE_HAVE_A_TWO_BY_TWO,
   FLAG_WE_HAVE_INSTRUCTIONS}

\* the size of the arguments that follow the flags of a component
ArgSize(flags) ==
  2 + (IF BitAnd(flags, FLAG_ARG_1_AND_2_ARE_WORDS) # 0 THEN 4 ELSE 2)
    + (IF BitAnd(flags, FLAG_WE_HAVE_A_SCALE) # 0 THEN 2
       ELSE IF BitAnd(flags, FLAG_WE_HAVE_AN_X_AND_Y_SCALE) # 0 THEN 4
       ELSE IF BitAnd(flags, FLAG_WE_HAVE_A_TWO_BY_TWO) # 0 THEN 8
       ELSE 0)

\* a component record that stays where it is
SameOffset(offset, flags) == offset

\* the offset of the composite stream after ReadU16 and Skip(arg_size)
AfterComponent(offset, flags) == offset + 2 + ArgSize(flags)

\* a composite stream: the records of the components, every one of them
\* with MORE_COMPONENTS when more is set and else all but the last, less
\* the last cut bytes
CompositeStream(flags, more, cut) ==
  Bind(ConcatAll([k \in 1 .. Len(flags) |->
         WriteUShort(flags[k] + (IF more \/ k < Len(flags)
                                 THEN FLAG_MORE_COMPONENTS ELSE 0))
           \o [j \in 1 .. ArgSize(flags[k]) |-> j]]), LAMBDA bytes :
    FromSeq(SubSeq(bytes, 1, Len(bytes) - cut)))

CompositeInput(flags, more, cut) ==
  [kind |-> "composite", stream |-> CompositeStream(flags, more, cut)]

\* one turn of the loop of ProcessComposite, from the test of the flags
\* that the turn before has read
ProcessCompositeTurn ==
  /\ stage = "composite"
  /\ cout.pc = "loop"
  /\ cout' =
       IF BitAnd(cout.flags, FLAG_MORE_COMPONENTS) = 0
       THEN [cout EXCEPT !.pc = "done", !.ok = TRUE]
       ELSE IF cout.offset + 2 > cin.stream.len
       THEN [cout EXCEPT !.pc = "done", !.ok = FALSE]
       ELSE
         Bind(U16At(cin.stream, cout.offset), LAMBDA flags :
           IF AfterComponent(cout.offset, flags) > cin.stream.len
           THEN [cout EXCEPT !.pc = "done", !.ok = FALSE, !.flags = flags,
                             !.offset = @ + 2]
           ELSE [cout EXCEPT !.flags = flags,
                             !.offset = AfterComponent(@, flags)])
  /\ UNCHANGED <<decvars, stage, ttf, meta, enc1, norm1, dec1, enc2, cin>>

InitComposite ==
  /\ \E flags \in SeqsUpTo(ComponentFlags, MaxComponents) \ {<<>>},
        more \in BOOLEAN, cut \in {0, 1, 3} :
       cin = CompositeInput(flags, more, cut)
  /\ cout = [pc |-> "loop", ok |-> TRUE, flags |-> FLAG_MORE_COMPONENTS,
             offset |-> 0]
  /\ data = MkMem(0, 0)
  /\ dec = Idle(0, NewTable)
  /\ out = MkMem(0, 0)
  /\ stage = "composite"
  /\ ttf = 0 /\ meta = 0 /\ enc1 = 0 /\ norm1 = 0 /\ dec1 = 0 /\ enc2 = 0

NextReturns == ProcessCompositeTurn

\* the code runs on: a turn that can be taken is taken
SpecReturns ==
  /\ InitComposite
  /\ [][NextReturns]_vars
  /\ WF_vars(ProcessCompositeTurn)

CompositeReturned == stage = "composite" /\ cout.pc = "done"

C27_TurnsConsume ==
  [][(stage = "composite" /\ cout'.pc = "loop")
       => cout'.offset >= cout.offset + 4]_vars

=============================================================================
